---- MODULE Spec2Model ----
(***************************************************************************)
(* Model of the multi-satellite data fusion engine, DataFusionEngine of    *)
(* data_fusion.py.  A request is the mapping handed to                     *)
(* fuse_satellite_data; the engine's answer is the returned report or the  *)
(* exception that escapes the call.                                        *)
(*                                                                         *)
(* Numbers.  Python floats are modelled as exact rationals [num, den] in   *)
(* lowest terms.  Input readings are integers in a per-metric unit:        *)
(* hundredths for ndvi and evi, tenths of a degree for temperature, whole  *)
(* percent for soil moisture.  Reliability weights are integers in         *)
(* hundredths.  Where the rounding of the doubles decides a property, the  *)
(* arithmetic is evaluated bit for bit in IEEE binary64 (FloatSpec).       *)
(*                                                                         *)
(* Threads.  ThreadSpec runs one call per request thread on the engine     *)
(* they share, a statement block at a time.                                *)
(***************************************************************************)
EXTENDS Integers, Sequences, FiniteSets, TLC

VARIABLES
    satellite_data,     \* the caller's input mapping (argument of the call)
    now,                \* the wall clock read by datetime.now()
    result,             \* outcome of the latest call on satellite_data
    previous,           \* outcome of the call before it
    executed,           \* per-metric routines the latest call ran, in order
    passed,             \* mapping the latest call handed to those routines
    satellite_weights,  \* self.satellite_weights
    binary64,           \* fused values of the latest call as IEEE doubles,
                        \* for the metrics evaluated bit for bit
    requests,           \* the calls in flight on the shared engine, one per
                        \* request thread: position and local variables
    twin                \* a second call of the caller, on a copy of the input
                        \* with the status of one source replaced

vars == <<satellite_data, now, result, previous, executed, passed, satellite_weights,
          binary64, requests, twin>>

(***************************************************************************)
(* Bounds of the model.                                                    *)
(***************************************************************************)
MaxSats == 2        \* entries of a 'satellites' mapping in the general family
MaxClock == 1       \* last tick of the clock

(***************************************************************************)
(* Python values.  A key that is missing from a dict is Absent; a key      *)
(* whose value is None is NoneV.                                           *)
(***************************************************************************)
Absent == [t |-> "absent", n |-> 0]
NoneV == [t |-> "none", n |-> 0]
Num(n) == [t |-> "num", n |-> n]
Str(s) == [t |-> "str", n |-> 0, s |-> s]

\* dict.get(key): a missing key reads as None.
Get(v) == IF v.t = "absent" THEN NoneV ELSE v

\* dict.get(key, default): only a missing key reads as the default.
GetDefault(v, default) == IF v.t = "absent" THEN default ELSE v

\* The 'indices' dict of a source entry.
Indices(ndvi, evi) == [t |-> "dict", ndvi |-> ndvi, evi |-> evi]
EmptyIndices == Indices(Absent, Absent)

\* A nested temperature profile, as the MODIS producers build it.
TempProfile(land_surface, mean, day) ==
    [t |-> "dict", land_surface |-> land_surface, mean |-> mean, day |-> day]
EmptyProfile == TempProfile(Absent, Absent, Absent)

\* One source entry of the 'satellites' mapping.
SatData(status, indices, temperature, moisture) ==
    [t |-> "dict", status |-> status, indices |-> indices,
     temperature |-> temperature, soil_moisture_estimate |-> moisture]
EmptyDict == SatData(Absent, Absent, Absent, Absent)

\* Python truthiness of a source entry: None and {} are falsy.
Falsy(sat_data) == sat_data.t = "none" \/ sat_data = EmptyDict

(***************************************************************************)
(* Exact rationals.                                                        *)
(***************************************************************************)
Abs(n) == IF n < 0 THEN -n ELSE n

RECURSIVE GCD(_, _)
GCD(a, b) == IF b = 0 THEN a ELSE GCD(b, a % b)

Rat(n, d) ==
    LET g == GCD(Abs(n), Abs(d))
        s == IF d < 0 THEN -1 ELSE 1
    IN  [num |-> s * (n \div g), den |-> s * (d \div g)]

RatAdd(a, b) ==
    LET g == GCD(a.den, b.den)
        l == (a.den \div g) * b.den
    IN  Rat(a.num * (l \div a.den) + b.num * (l \div b.den), l)

RatSub(a, b) == RatAdd(a, [num |-> -b.num, den |-> b.den])

RatMul(a, b) ==
    LET x == Rat(a.num, b.den)
        y == Rat(b.num, a.den)
    IN  [num |-> x.num * y.num, den |-> x.den * y.den]

RatDiv(a, b) == RatMul(a, Rat(b.den, b.num))

RatLE(a, b) == a.num * b.den <= b.num * a.den
RatLT(a, b) == a.num * b.den < b.num * a.den

RatMin(a, b) == IF RatLE(a, b) THEN a ELSE b
RatMax(a, b) == IF RatLE(a, b) THEN b ELSE a

Zero == Rat(0, 1)
One == Rat(1, 1)

(***************************************************************************)
(* IEEE binary64, bit for bit.  A big natural is the sequence of its       *)
(* limbs, least significant first, without leading zero limbs; a double    *)
(* is sign * m * 2^e with a mantissa m of exactly MantissaBits bits.       *)
(***************************************************************************)
LimbWidth == 15
LimbBase == 32768
MantissaBits == 53

Limb(a) == IF a = <<>> THEN 0 ELSE Head(a)
Rest(a) == IF a = <<>> THEN <<>> ELSE Tail(a)

RECURSIVE BigNat(_)
BigNat(n) == IF n = 0 THEN <<>> ELSE <<n % LimbBase>> \o BigNat(n \div LimbBase)

RECURSIVE Trim(_)
Trim(a) ==
    IF a = <<>> THEN a
    ELSE IF a[Len(a)] = 0 THEN Trim(SubSeq(a, 1, Len(a) - 1))
    ELSE a

RECURSIVE BigAddC(_, _, _)
BigAddLimb(s, a, b) == <<s % LimbBase>> \o BigAddC(Rest(a), Rest(b), s \div LimbBase)
BigAddC(a, b, carry) ==
    IF a = <<>> /\ b = <<>> THEN BigNat(carry)
    ELSE BigAddLimb(Limb(a) + Limb(b) + carry, a, b)

BigAdd(a, b) == BigAddC(a, b, 0)

\* a - b - borrow for a >= b + borrow, leading zero limbs included.
RECURSIVE BigSubB(_, _, _)
BigSubLimb(d, a, b) ==
    IF d < 0 THEN <<d + LimbBase>> \o BigSubB(Rest(a), Rest(b), 1)
    ELSE <<d>> \o BigSubB(Rest(a), Rest(b), 0)
BigSubB(a, b, borrow) ==
    IF a = <<>> THEN <<>>
    ELSE BigSubLimb(Limb(a) - Limb(b) - borrow, a, b)

BigSub(a, b) == Trim(BigSubB(a, b, 0))

\* a < b, comparing from limb i down.
RECURSIVE BigLessFrom(_, _, _)
BigLessFrom(a, b, i) ==
    IF i = 0 THEN FALSE
    ELSE IF a[i] # b[i] THEN a[i] < b[i]
    ELSE BigLessFrom(a, b, i - 1)

BigLess(a, b) ==
    IF Len(a) # Len(b) THEN Len(a) < Len(b) ELSE BigLessFrom(a, b, Len(a))

RECURSIVE BigMulLimb(_, _, _)
BigMulStep(p, a, d) == <<p % LimbBase>> \o BigMulLimb(Tail(a), d, p \div LimbBase)
BigMulLimb(a, d, carry) ==
    IF a = <<>> THEN BigNat(carry)
    ELSE BigMulStep(Head(a) * d + carry, a, d)

ShiftLimb(a) == IF a = <<>> THEN a ELSE <<0>> \o a

RECURSIVE BigMul(_, _)
BigMul(a, b) ==
    IF a = <<>> \/ b = <<>> THEN <<>>
    ELSE BigAdd(Trim(BigMulLimb(a, Head(b), 0)), ShiftLimb(BigMul(a, Tail(b))))

\* 2^k as a big natural.
RECURSIVE PowerOfTwo(_)
PowerOfTwo(k) ==
    IF k >= LimbWidth THEN <<0>> \o PowerOfTwo(k - LimbWidth)
    ELSE <<2^k>>

RECURSIVE LimbBits(_)
LimbBits(d) == IF d = 0 THEN 0 ELSE 1 + LimbBits(d \div 2)

BitLength(a) ==
    IF a = <<>> THEN 0 ELSE LimbWidth * (Len(a) - 1) + LimbBits(a[Len(a)])

Float(sign, m, e) == [sign |-> sign, m |-> m, e |-> e]
FloatZero == Float(1, <<>>, 0)

\* a / b as a' / b' * 2^e with b' <= a' < 2 b'.
Halved(a, b, e) ==
    IF BigLess(a, b) THEN [a |-> BigAdd(a, a), b |-> b, e |-> e - 1]
    ELSE [a |-> a, b |-> b, e |-> e]

Normalise(a, b, e) ==
    IF BitLength(a) >= BitLength(b)
    THEN Halved(a, BigMul(b, PowerOfTwo(BitLength(a) - BitLength(b))),
                e + (BitLength(a) - BitLength(b)))
    ELSE Halved(BigMul(a, PowerOfTwo(BitLength(b) - BitLength(a))), b,
                e - (BitLength(b) - BitLength(a)))

\* One step of binary long division: the next bit of the quotient q, with
\* the remainder r doubled.
DivBit(d, b) ==
    IF BigLess(d.r, b) THEN [q |-> BigAddC(d.q, d.q, 0), r |-> BigAdd(d.r, d.r)]
    ELSE [q |-> BigAddC(d.q, d.q, 1), r |-> BigAddC(BigSub(d.r, b), BigSub(d.r, b), 0)]

\* i steps of long division from d, BlockBits at a stretch; the test on
\* d.q has each step evaluated before the next one starts.
BlockBits == 8

RECURSIVE DivBlock(_, _, _)
DivBlock(i, d, b) ==
    IF i = 0 \/ d.q = <<-1>> THEN d
    ELSE DivBlock(i - 1, DivBit(d, b), b)

RECURSIVE DivBits(_, _, _)
DivBits(i, d, b) ==
    IF i <= BlockBits \/ d.q = <<-1>> THEN DivBlock(i, d, b)
    ELSE DivBits(i - BlockBits, DivBlock(BlockBits, d, b), b)

RoundUp(q, e) ==
    IF q = PowerOfTwo(MantissaBits) THEN [m |-> PowerOfTwo(MantissaBits - 1), e |-> e + 1]
    ELSE [m |-> q, e |-> e]

\* Round to nearest, ties to even: d.r / (2 b) is the fraction cut off.
RoundBits(d, b, e) ==
    IF BigLess(b, d.r) \/ (d.r = b /\ Limb(d.q) % 2 = 1)
    THEN RoundUp(BigAddC(d.q, <<>>, 1), e)
    ELSE [m |-> d.q, e |-> e]

RoundNormal(n) ==
    RoundBits(DivBits(MantissaBits, [q |-> <<>>, r |-> n.a], n.b), n.b,
              n.e - (MantissaBits - 1))

Signed(sign, r) == Float(sign, r.m, r.e)

\* The double nearest to sign * (a / b) * 2^e, for a >= 0 and b > 0.
RoundDiv(sign, a, b, e) ==
    IF a = <<>> THEN FloatZero
    ELSE Signed(sign, RoundNormal(Normalise(a, b, e)))

Sign(n) == IF n < 0 THEN -1 ELSE 1

\* The double a decimal literal n / d is read as.
Literal(n, d) == RoundDiv(Sign(n), BigNat(Abs(n)), BigNat(d), 0)

\* x * y and x / y on doubles.
FloatMul(x, y) == RoundDiv(x.sign * y.sign, BigMul(x.m, y.m), <<1>>, x.e + y.e)
FloatDiv(x, y) == RoundDiv(x.sign * y.sign, x.m, y.m, x.e - y.e)

(***************************************************************************)
(* Static configuration of the engine.                                     *)
(***************************************************************************)
\* Mutant: a table in which one source has no weight at all.
InitialWeights_unweighted ==
    [cartosat |-> 100, sentinel2 |-> 95, irs |-> 90, landsat8 |-> 85,
     sentinel1 |-> 80, risat |-> 80, modis |-> 0, oceansat |-> 70]

\* The reliability-weight table built by __init__, in hundredths.
InitialWeights ==
    [cartosat |-> 100, sentinel2 |-> 95, irs |-> 90, landsat8 |-> 85,
     sentinel1 |-> 80, risat |-> 80, modis |-> 60, oceansat |-> 70]

\* Mutant: the default weight is used for every source.
WeightOf_default(weights, sat_name) == 50

\* self.satellite_weights.get(sat_name, 0.5)
WeightOf(weights, sat_name) ==
    IF sat_name \in DOMAIN weights THEN weights[sat_name] ELSE 50

Metrics == {"ndvi", "temperature", "soil_moisture", "evi"}

\* Readings per unit of a metric: an input reading n stands for n / Unit.
Unit(metric) ==
    CASE metric \in {"ndvi", "evi"} -> 100
      [] metric = "temperature" -> 10
      [] metric = "soil_moisture" -> 1

\* The float an integer reading stands for.
Real(metric, n) == Rat(n, Unit(metric))

\* Sources each routine reads.
\* Mutant: the vegetation indices of modis are read too.
OpticalIds_modis == {"sentinel2", "landsat8", "irs", "modis"}

OpticalIds == {"sentinel2", "landsat8", "irs"}
ThermalIds == {"landsat8", "modis", "irs"}
\* Mutant: oceansat is read for soil moisture as well.
SarIds_ocean == {"sentinel1", "risat", "oceansat"}

SarIds == {"sentinel1", "risat"}

\* Statuses the filter accepts.
AcceptedStatuses == {"success", "fallback", "simulated"}

(***************************************************************************)
(* An insertion-ordered dict of sources is a sequence of items             *)
(* [name, data] with distinct names.                                       *)
(***************************************************************************)
Item(name, data) == [name |-> name, data |-> data]

Keys(items) == [i \in 1..Len(items) |-> items[i].name]

KeySet(items) == {items[i].name : i \in 1..Len(items)}

Lookup(items, name) == (CHOOSE i \in 1..Len(items) : items[i].name = name)

(***************************************************************************)
(* _filter_valid_satellites                                                *)
(***************************************************************************)
\* Mutant: every entry that carries a status is kept.
IsValidSatellite_anystatus(sat_data) ==
    /\ ~Falsy(sat_data)
    /\ LET status == GetDefault(sat_data.status, Str(""))
       IN  status.t = "str" /\ status.s # ""

\* Mutant: only readings tagged success are kept.
IsValidSatellite_successonly(sat_data) ==
    /\ ~Falsy(sat_data)
    /\ LET status == GetDefault(sat_data.status, Str(""))
       IN  status.t = "str" /\ status.s = "success"

\* The loop body's test: the entry is kept.
IsValidSatellite(sat_data) ==
    /\ ~Falsy(sat_data)
    /\ LET status == GetDefault(sat_data.status, Str(""))
       IN  status.t = "str" /\ status.s \in AcceptedStatuses

\* Mutant: the kept entries come out in reverse order.
RECURSIVE filter_valid_satellites_reversed(_)
filter_valid_satellites_reversed(satellites) ==
    IF satellites = <<>> THEN <<>>
    ELSE LET rest == filter_valid_satellites_reversed(Tail(satellites))
         IN  IF ~Falsy(Head(satellites).data)
                /\ GetDefault(Head(satellites).data.status, Str("")).t = "str"
                /\ GetDefault(Head(satellites).data.status, Str("")).s
                       \in {"success", "fallback", "simulated"}
             THEN rest \o <<Head(satellites)>>
             ELSE rest

RECURSIVE filter_valid_satellites(_)
filter_valid_satellites(satellites) ==
    IF satellites = <<>> THEN <<>>
    ELSE LET rest == filter_valid_satellites(Tail(satellites))
         IN  IF IsValidSatellite(Head(satellites).data)
             THEN <<Head(satellites)>> \o rest
             ELSE rest

(***************************************************************************)
(* Outcome of reading one source for one metric: the reading is skipped,   *)
(* admitted with its value, or the read raises.                            *)
(***************************************************************************)
Skip == [k |-> "skip"]
Admit(value) == [k |-> "add", value |-> value]
Raise(exc) == [k |-> "raise", exc |-> exc]

\* Mutant: the upper bound is not checked.
InRange_unbounded(metric, v, lo, hi) ==
    CASE v.t = "none" -> Skip
      [] v.t = "num" -> IF lo * Unit(metric) <= v.n THEN Admit(v.n) ELSE Skip
      [] OTHER -> Raise("TypeError")

\* Mutant: a reading outside the range is clamped into it.
InRange_clamped(metric, v, lo, hi) ==
    CASE v.t = "none" -> Skip
      [] v.t = "num" -> IF v.n < lo * Unit(metric) THEN Admit(lo * Unit(metric))
                        ELSE IF v.n > hi * Unit(metric) THEN Admit(hi * Unit(metric))
                        ELSE Admit(v.n)
      [] OTHER -> Raise("TypeError")

\* `x is not None and lo <= x <= hi` on a Python value; an admitted reading
\* is kept as its integer in the metric's unit.
InRange(metric, v, lo, hi) ==
    CASE v.t = "none" -> Skip
      [] v.t = "num" -> IF lo * Unit(metric) <= v.n /\ v.n <= hi * Unit(metric)
                        THEN Admit(v.n) ELSE Skip
      [] OTHER -> Raise("TypeError")

\* indices = sat_data.get('indices', {}); indices.get(key)
ReadIndex(sat_data, key) ==
    LET indices == GetDefault(sat_data.indices, EmptyIndices)
    IN  IF indices.t # "dict" THEN Raise("AttributeError")
        ELSE Admit(Get(indices[key]))

ReadNdvi(sat_name, sat_data) ==
    IF sat_name \in OpticalIds
    THEN LET ndvi == ReadIndex(sat_data, "ndvi")
         IN  IF ndvi.k = "raise" THEN ndvi ELSE InRange("ndvi", ndvi.value, -1, 1)
    ELSE Skip

ReadEvi(sat_name, sat_data) ==
    IF sat_name \in OpticalIds
    THEN LET evi == ReadIndex(sat_data, "evi")
         IN  IF evi.k = "raise" THEN evi ELSE InRange("evi", evi.value, -1, 1)
    ELSE Skip

\* temp_data.get('land_surface', temp_data.get('mean'))
ProfileTemp(temp_data) == GetDefault(temp_data.land_surface, Get(temp_data.mean))

ExtractTemp(sat_name, sat_data) ==
    CASE sat_name = "landsat8" -> Get(sat_data.temperature)
      [] sat_name = "modis" ->
            LET temp_data == GetDefault(sat_data.temperature, EmptyProfile)
            IN  IF temp_data.t = "dict" THEN ProfileTemp(temp_data) ELSE temp_data
      [] sat_name = "irs" -> Get(sat_data.temperature)
      [] OTHER -> NoneV

ReadTemperature(sat_name, sat_data) ==
    InRange("temperature", ExtractTemp(sat_name, sat_data), 0, 60)

ReadMoisture(sat_name, sat_data) ==
    IF sat_name \in SarIds
    THEN InRange("soil_moisture", Get(sat_data.soil_moisture_estimate), 0, 100)
    ELSE Skip

Read(metric, sat_name, sat_data) ==
    CASE metric = "ndvi" -> ReadNdvi(sat_name, sat_data)
      [] metric = "evi" -> ReadEvi(sat_name, sat_data)
      [] metric = "temperature" -> ReadTemperature(sat_name, sat_data)
      [] metric = "soil_moisture" -> ReadMoisture(sat_name, sat_data)

(***************************************************************************)
(* The per-metric routines: _fuse_ndvi, _fuse_temperature, _fuse_moisture  *)
(* and _fuse_evi.  They differ in the reader, max_variance and the two     *)
(* agreement thresholds.                                                   *)
(***************************************************************************)
Source(name, value, weight) == [name |-> name, value |-> value, weight |-> weight]

\* The extraction loop: contributors in iteration order, or the first
\* exception a read raises.
\* One pass of the loop body: r is what reading the entry gave, rest what
\* the remaining iterations give.
Iterate(sat_name, r, weight, rest) ==
    IF r.k = "raise" THEN [exc |-> r.exc, sources |-> <<>>]
    ELSE IF r.k = "skip" \/ rest.exc # "" THEN rest
    ELSE [exc |-> "", sources |-> <<Source(sat_name, r.value, weight)>> \o rest.sources]

RECURSIVE Collect(_, _, _)
Collect(metric, satellites, weights) ==
    IF satellites = <<>> THEN [exc |-> "", sources |-> <<>>]
    ELSE Iterate(Head(satellites).name,
                 Read(metric, Head(satellites).name, Head(satellites).data),
                 WeightOf(weights, Head(satellites).name),
                 Collect(metric, Tail(satellites), weights))

\* Integer sums over the contributors: weights in hundredths, values in
\* the metric's unit.
RECURSIVE SumWeights(_)
SumWeights(sources) ==
    IF sources = <<>> THEN 0
    ELSE Head(sources).weight + SumWeights(Tail(sources))

RECURSIVE SumWeighted(_)
SumWeighted(sources) ==
    IF sources = <<>> THEN 0
    ELSE Head(sources).value * Head(sources).weight + SumWeighted(Tail(sources))

RECURSIVE SumValues(_)
SumValues(sources) ==
    IF sources = <<>> THEN 0
    ELSE Head(sources).value + SumValues(Tail(sources))

\* Sum of the squared deviations from the mean total / n, times n * n.
RECURSIVE SumSquares(_, _, _)
SumSquares(sources, total, n) ==
    IF sources = <<>> THEN 0
    ELSE LET d == n * Head(sources).value - total
         IN  d * d + SumSquares(Tail(sources), total, n)

\* Mutant: the plain mean of the values, the weights ignored.
WeightedMean_plain(metric, sources) ==
    Rat(SumValues(sources), Len(sources) * Unit(metric))

\* sum(value * weight) / total_weight
WeightedMean(metric, sources) ==
    Rat(SumWeighted(sources), SumWeights(sources) * Unit(metric))

\* Mutant: the sample variance, the squared deviations over n - 1.
NpVar_sample(metric, sources) ==
    LET n == Len(sources)
    IN  Rat(SumSquares(sources, SumValues(sources), n),
            n * n * (n - 1) * Unit(metric) * Unit(metric))

\* np.var(values): the population variance, mean((x - mean(x)) ** 2).
NpVar(metric, sources) ==
    LET n == Len(sources)
    IN  Rat(SumSquares(sources, SumValues(sources), n),
            n * n * n * Unit(metric) * Unit(metric))

\* variance = np.var(values) if len(values) > 1 else 0.0
Variance(metric, sources) ==
    IF Len(sources) > 1 THEN NpVar(metric, sources) ELSE Zero

\* sum(value * weight) / total_weight in binary64 where one source
\* contributes: both sums start from the int 0, so they are exact.
FloatWeightedMean(metric, source) ==
    FloatDiv(FloatMul(Literal(source.value, Unit(metric)), Literal(source.weight, 100)),
             Literal(source.weight, 100))

\* Mutant: the source term saturates at three sources instead of four.
calculate_confidence_three(num_sources, variance, max_variance) ==
    LET source_confidence == RatMin(Rat(num_sources, 3), One)
        variance_confidence == RatMax(Zero, RatSub(One, RatDiv(variance, max_variance)))
        confidence == RatAdd(RatMul(source_confidence, Rat(6, 10)),
                             RatMul(variance_confidence, Rat(4, 10)))
    IN  RatMin(RatMax(confidence, Zero), One)

\* Mutant: the source term is the share of one source, 1 / num_sources.
calculate_confidence_share(num_sources, variance, max_variance) ==
    LET source_confidence == RatMin(Rat(1, num_sources), One)
        variance_confidence == RatMax(Zero, RatSub(One, RatDiv(variance, max_variance)))
        confidence == RatAdd(RatMul(source_confidence, Rat(6, 10)),
                             RatMul(variance_confidence, Rat(4, 10)))
    IN  RatMin(RatMax(confidence, Zero), One)

\* _calculate_confidence
calculate_confidence(num_sources, variance, max_variance) ==
    LET source_confidence == RatMin(Rat(num_sources, 4), One)
        variance_confidence == RatMax(Zero, RatSub(One, RatDiv(variance, max_variance)))
        confidence == RatAdd(RatMul(source_confidence, Rat(6, 10)),
                             RatMul(variance_confidence, Rat(4, 10)))
    IN  RatMin(RatMax(confidence, Zero), One)

\* Mutant: the temperature ceiling is the 2 degrees of the source comment.
MaxVariance_comment(metric) ==
    CASE metric \in {"ndvi", "evi"} -> Rat(4, 100)
      [] metric = "temperature" -> Rat(2, 1)
      [] metric = "soil_moisture" -> Rat(100, 1)

MaxVariance(metric) ==
    CASE metric \in {"ndvi", "evi"} -> Rat(4, 100)
      [] metric = "temperature" -> Rat(4, 1)
      [] metric = "soil_moisture" -> Rat(100, 1)

HighBelow(metric) ==
    CASE metric \in {"ndvi", "evi"} -> Rat(2, 100)
      [] metric = "temperature" -> Rat(1, 1)
      [] metric = "soil_moisture" -> Rat(25, 1)

MediumBelow(metric) ==
    CASE metric \in {"ndvi", "evi"} -> Rat(5, 100)
      [] metric = "temperature" -> Rat(3, 1)
      [] metric = "soil_moisture" -> Rat(50, 1)

\* Mutant: a variance equal to a threshold still counts as below it.
Agreement_inclusive(metric, variance) ==
    IF RatLE(variance, HighBelow(metric)) THEN "High"
    ELSE IF RatLE(variance, MediumBelow(metric)) THEN "Medium"
    ELSE "Low"

Agreement(metric, variance) ==
    IF RatLT(variance, HighBelow(metric)) THEN "High"
    ELSE IF RatLT(variance, MediumBelow(metric)) THEN "Medium"
    ELSE "Low"

\* Mutant: the dict holds the weighted terms of the sum, value * weight.
SourcesMap_weighted(metric, sources) ==
    [name \in KeySet(sources) |->
        Rat(sources[Lookup(sources, name)].value * sources[Lookup(sources, name)].weight,
            Unit(metric) * 100)]

\* The dict {name: float(data['value'])} of the contributors.
SourcesMap(metric, sources) ==
    [name \in KeySet(sources) |-> Real(metric, sources[Lookup(sources, name)].value)]

\* What a routine hands back: None, a result dict, or an exception.
ReturnNone == [k |-> "none"]
Fused(value, confidence, cross_val) ==
    [k |-> "ok", value |-> value, confidence |-> confidence, cross_val |-> cross_val]

\* The return statement of a routine.
FusedResult(metric, sources, fused, variance) ==
    Fused(fused,
          calculate_confidence(Len(sources), variance, MaxVariance(metric)),
          [sources |-> SourcesMap(metric, sources),
           fused |-> fused,
           variance |-> variance,
           agreement |-> Agreement(metric, variance),
           num_sources |-> Len(sources)])

\* A routine after its extraction loop.
FuseSources(metric, c) ==
    IF c.exc # "" THEN Raise(c.exc)
    ELSE IF c.sources = <<>> THEN ReturnNone
    ELSE FusedResult(metric, c.sources, WeightedMean(metric, c.sources),
                     Variance(metric, c.sources))

FuseMetric(metric, satellites, weights) ==
    FuseSources(metric, Collect(metric, satellites, weights))

fuse_ndvi(satellites, weights) == FuseMetric("ndvi", satellites, weights)
fuse_temperature(satellites, weights) == FuseMetric("temperature", satellites, weights)
fuse_moisture(satellites, weights) == FuseMetric("soil_moisture", satellites, weights)
fuse_evi(satellites, weights) == FuseMetric("evi", satellites, weights)

\* The order in which fuse_satellite_data runs the routines.
RoutineOrder == <<"ndvi", "temperature", "soil_moisture", "evi">>

Routine(metric, satellites, weights) ==
    CASE metric = "ndvi" -> fuse_ndvi(satellites, weights)
      [] metric = "temperature" -> fuse_temperature(satellites, weights)
      [] metric = "soil_moisture" -> fuse_moisture(satellites, weights)
      [] metric = "evi" -> fuse_evi(satellites, weights)

(***************************************************************************)
(* Aggregation helpers.                                                    *)
(***************************************************************************)
RECURSIVE SumOver(_, _)
SumOver(f, keys) ==
    IF keys = {} THEN Zero
    ELSE LET key == CHOOSE key \in keys : TRUE
         IN  RatAdd(f[key], SumOver(f, keys \ {key}))

\* Mutant: the sum is spread over the four metrics the engine knows.
calculate_overall_confidence_four(confidence_scores) ==
    IF DOMAIN confidence_scores = {} THEN Zero
    ELSE RatDiv(SumOver(confidence_scores, DOMAIN confidence_scores),
                Rat(Cardinality(Metrics), 1))

\* _calculate_overall_confidence
calculate_overall_confidence(confidence_scores) ==
    IF DOMAIN confidence_scores = {} THEN Zero
    ELSE RatDiv(SumOver(confidence_scores, DOMAIN confidence_scores),
                Rat(Cardinality(DOMAIN confidence_scores), 1))

\* Mutant: half of the metrics are enough.
calculate_consensus_level_half(cross_validation) ==
    IF DOMAIN cross_validation = {} THEN "Unknown"
    ELSE LET len == Cardinality(DOMAIN cross_validation)
             high_count == Cardinality({m \in DOMAIN cross_validation :
                                          cross_validation[m].agreement = "High"})
             medium_count == Cardinality({m \in DOMAIN cross_validation :
                                            cross_validation[m].agreement = "Medium"})
         IN  IF 10 * high_count >= 5 * len THEN "High"
             ELSE IF 10 * (high_count + medium_count) >= 5 * len THEN "Medium"
             ELSE "Low"

\* _calculate_consensus_level; count >= len * 0.7 is 10 * count >= 7 * len.
calculate_consensus_level(cross_validation) ==
    IF DOMAIN cross_validation = {} THEN "Unknown"
    ELSE LET len == Cardinality(DOMAIN cross_validation)
             high_count == Cardinality({m \in DOMAIN cross_validation :
                                          cross_validation[m].agreement = "High"})
             medium_count == Cardinality({m \in DOMAIN cross_validation :
                                            cross_validation[m].agreement = "Medium"})
         IN  IF 10 * high_count >= 7 * len THEN "High"
             ELSE IF 10 * (high_count + medium_count) >= 7 * len THEN "Medium"
             ELSE "Low"

\* Mutant: three sources are enough for the top grade.
determine_quality_three(confidence, num_sources) ==
    IF RatLE(Rat(8, 10), confidence) /\ num_sources >= 3 THEN "Excellent"
    ELSE IF RatLE(Rat(7, 10), confidence) /\ num_sources >= 3 THEN "Good"
    ELSE IF RatLE(Rat(5, 10), confidence) /\ num_sources >= 2 THEN "Fair"
    ELSE "Limited"

\* _determine_quality
determine_quality(confidence, num_sources) ==
    IF RatLE(Rat(8, 10), confidence) /\ num_sources >= 4 THEN "Excellent"
    ELSE IF RatLE(Rat(7, 10), confidence) /\ num_sources >= 3 THEN "Good"
    ELSE IF RatLE(Rat(5, 10), confidence) /\ num_sources >= 2 THEN "Fair"
    ELSE "Limited"

(***************************************************************************)
(* fuse_satellite_data                                                     *)
(***************************************************************************)
\* The top-level input dict; 'satellites' holds Absent, None or a mapping.
Input(location, satellites) ==
    [t |-> "dict", location |-> location, satellites |-> satellites]
Mapping(items) == [t |-> "dict", items |-> items]
EmptyLocation == [t |-> "dict"]
SomeLocation == [t |-> "dict", lat |-> 28, lon |-> 77]

\* `not satellite_data`
InputFalsy(data) == data.t = "none" \/ data = Input(Absent, Absent)

\* Messages are the sequences of their words.
InvalidInputMessage == <<"Invalid", "input", "data">>
NoValidDataMessage == <<"No", "valid", "satellite", "data", "available", "for", "fusion">>

\* How a call ends: it returns a report or an exception escapes it.
Returned(report) == [k |-> "returned", report |-> report]
Raised(exc) == [k |-> "raised", exc |-> exc]
NoCall == [k |-> "nocall"]

EmptyMap == <<>>

\* The four "fuse, then store if truthy" blocks, run in order from step i:
\* the three report dicts so far, the routines entered, and the exception
\* that ended the run, if any.
NothingRun ==
    [executed |-> <<>>, exc |-> "", fused_metrics |-> EmptyMap,
     confidence_scores |-> EmptyMap, cross_validation |-> EmptyMap]

\* One block: the routine was entered and gave r, which is stored if truthy.
Store(acc, metric, r) ==
    IF r.k = "raise"
    THEN [acc EXCEPT !.executed = Append(@, metric), !.exc = r.exc]
    ELSE IF r.k = "none"
    THEN [acc EXCEPT !.executed = Append(@, metric)]
    ELSE [acc EXCEPT
            !.executed = Append(@, metric),
            !.fused_metrics = @ @@ (metric :> r.value),
            !.confidence_scores = @ @@ (metric :> r.confidence),
            !.cross_validation = @ @@ (metric :> r.cross_val)]

RECURSIVE RunRoutines(_, _, _, _)
RunRoutines(i, valid_satellites, weights, acc) ==
    IF i > Len(RoutineOrder) \/ acc.exc # "" THEN acc
    ELSE RunRoutines(i + 1, valid_satellites, weights,
                     Store(acc, RoutineOrder[i],
                           Routine(RoutineOrder[i], valid_satellites, weights)))

\* The `fused` dict as initialised, before filtering.
InitialReport(data, clock) ==
    [timestamp |-> clock,
     location |-> GetDefault(data.location, EmptyLocation),
     fused_metrics |-> EmptyMap,
     cross_validation |-> EmptyMap,
     confidence_scores |-> EmptyMap,
     data_sources |-> <<>>,
     consensus_level |-> "Unknown",
     overall_quality |-> "Unknown"]

\* Mutant: the structural failure is reported under the soft status.
ErrorReport_softstatus == [status |-> "no_valid_data", message |-> InvalidInputMessage]

ErrorReport == [status |-> "error", message |-> InvalidInputMessage]

\* Mutant: the message of the empty report carries the time of the call.
NoValidDataReport_timed(data, clock) ==
    InitialReport(data, clock)
        @@ [status |-> "no_valid_data", message |-> Append(NoValidDataMessage, clock)]

NoValidDataReport(data, clock) ==
    InitialReport(data, clock)
        @@ [status |-> "no_valid_data", message |-> NoValidDataMessage]

\* The report once the routines have run, given the overall confidence.
Completed(data, clock, valid_satellites, run, overall_confidence) ==
    [timestamp |-> clock,
     location |-> GetDefault(data.location, EmptyLocation),
     fused_metrics |-> run.fused_metrics,
     cross_validation |-> run.cross_validation,
     confidence_scores |-> run.confidence_scores,
     data_sources |-> Keys(valid_satellites),
     consensus_level |-> calculate_consensus_level(run.cross_validation),
     overall_quality |-> determine_quality(overall_confidence, Len(valid_satellites)),
     overall_confidence |-> overall_confidence,
     status |-> "success"]

SuccessReport(data, clock, valid_satellites, run) ==
    Completed(data, clock, valid_satellites, run,
              calculate_overall_confidence(run.confidence_scores))

Outcome(outcome, executed_routines, passed_mapping) ==
    [outcome |-> outcome, executed |-> executed_routines, passed |-> passed_mapping]

\* The end of the call once the routines have run.
Finish(data, clock, valid_satellites, run) ==
    IF run.exc # ""
    THEN Outcome(Raised(run.exc), run.executed, valid_satellites)
    ELSE Outcome(Returned(SuccessReport(data, clock, valid_satellites, run)),
                 run.executed, valid_satellites)

\* Mutant: an empty filtered mapping is fused like any other.
FuseValid_noshortcircuit(data, clock, weights, valid_satellites) ==
    Finish(data, clock, valid_satellites,
           RunRoutines(1, valid_satellites, weights, NothingRun))

\* The call from the filtered mapping on: the short-circuit, else the
\* routines and the aggregation.
FuseValid(data, clock, weights, valid_satellites) ==
    IF valid_satellites = <<>>
    THEN Outcome(Returned(NoValidDataReport(data, clock)), <<>>, <<>>)
    ELSE Finish(data, clock, valid_satellites,
                RunRoutines(1, valid_satellites, weights, NothingRun))

\* One call: its outcome, the routines it entered and the mapping it gave them.
fuse_satellite_data(data, clock, weights) ==
    IF InputFalsy(data) \/ data.satellites.t = "absent"
    THEN Outcome(Returned(ErrorReport), <<>>, <<>>)
    ELSE IF data.satellites.t # "dict"
    THEN Outcome(Raised("AttributeError"), <<>>, <<>>)
    ELSE FuseValid(data, clock, weights,
                   filter_valid_satellites(data.satellites.items))

\* The fused values of a call as doubles, for the metrics of a returned
\* report that have one contributor.
SingleContributor(valid_satellites, weights) ==
    {metric \in Metrics : Len(Collect(metric, valid_satellites, weights).sources) = 1}

FloatMetrics(call, weights) ==
    IF call.outcome.k # "returned" THEN EmptyMap
    ELSE [metric \in SingleContributor(call.passed, weights) |->
            FloatWeightedMean(metric, Collect(metric, call.passed, weights).sources[1])]

\* fuse_all: the alias.
fuse_all(data, clock, weights) == fuse_satellite_data(data, clock, weights)

(***************************************************************************)
(* The inputs the model draws from.  Every family has a 'satellites'       *)
(* mapping except TopLevelShapes.                                          *)
(***************************************************************************)
Success == Str("success")

\* Top-level shapes: None, {}, no 'satellites' key, a null or empty mapping.
TopLevelShapes ==
    {NoneV, Input(Absent, Absent), Input(SomeLocation, Absent),
     Input(Absent, NoneV), Input(Absent, Mapping(<<>>)),
     Input(SomeLocation, Mapping(<<>>))}

\* General family: mappings of up to MaxSats entries in any order, every
\* entry None, {} or a typical reading of its source under any status.
GeneralIds == {"sentinel2", "landsat8", "sentinel1"}

StatusValues == {Absent, Success, Str("simulated"), Str("error"), Str("pending")}

TypicalReading(name, status) ==
    CASE name = "sentinel2" -> SatData(status, Indices(Num(65), Num(52)), Absent, Absent)
      [] name = "landsat8" -> SatData(status, Indices(Num(63), Num(50)), Num(285), Absent)
      [] name = "sentinel1" -> SatData(status, Absent, Absent, Num(45))

GeneralEntries(name) ==
    {NoneV, EmptyDict} \cup {TypicalReading(name, status) : status \in StatusValues}

RECURSIVE GeneralItems(_)
GeneralItems(len) ==
    IF len = 0 THEN {<<>>}
    ELSE LET shorter == GeneralItems(len - 1)
         IN  shorter \cup
             UNION {UNION {{Append(items, Item(name, entry)) :
                              entry \in GeneralEntries(name)} :
                           name \in GeneralIds \ KeySet(items)} :
                    items \in {x \in shorter : Len(x) = len - 1}}

GeneralInputs == {Input(SomeLocation, Mapping(items)) : items \in GeneralItems(MaxSats)}

\* Optical family: the three optical sources, each with 'indices' missing,
\* null, or holding an ndvi and an evi that may be missing, at a range
\* bound, out of range or of the wrong type.
OpticalNdvi(name) ==
    CASE name = "sentinel2" -> 65
      [] name = "landsat8" -> 63
      [] name = "irs" -> 64

OpticalEvi(name) ==
    CASE name = "sentinel2" -> 52
      [] name = "landsat8" -> 50
      [] name = "irs" -> 51

NdviValues(name) ==
    {Absent, Num(-101), Num(-100), Num(OpticalNdvi(name)), Num(100), Str("n/a")}

EviValues(name) == {Absent, Num(OpticalEvi(name)), Num(150)}

IndicesValues(name) ==
    {Absent, NoneV} \cup
    {Indices(ndvi, evi) : ndvi \in NdviValues(name), evi \in EviValues(name)}

FewIndicesValues(name) ==
    {Absent,
     Indices(Num(OpticalNdvi(name)), Num(OpticalEvi(name))),
     Indices(Num(100), Absent),
     Indices(Num(-100), Num(150)),
     Indices(Num(101), Num(OpticalEvi(name)))}

OpticalInputs ==
    {Input(Absent, Mapping(<<
        Item("sentinel2", SatData(Success, i1, Absent, Absent)),
        Item("landsat8", SatData(Str("fallback"), i2, Absent, Absent)),
        Item("irs", SatData(Str("simulated"), i3, Absent, Absent))>>)) :
     i1 \in IndicesValues("sentinel2"), i2 \in IndicesValues("landsat8"),
     i3 \in FewIndicesValues("irs")}

\* Thermal family: a flat, missing, null, mistyped or nested temperature.
FlatTemperatures ==
    {Absent, NoneV, Num(-1), Num(0), Num(285), Num(600), Num(601), Str("hot")}

Profiles ==
    {TempProfile(land_surface, mean, day) :
        land_surface \in {Absent, NoneV, Num(310)},
        mean \in {Absent, Num(250)},
        day \in {Absent, Num(330)}}

ThermalInputs ==
    {Input(Absent, Mapping(<<
        Item("landsat8", SatData(Success, Indices(Num(63), Num(50)), t1, Absent)),
        Item("modis", SatData(Success, Absent, t2, Absent)),
        Item("irs", SatData(Success, Indices(Num(64), Absent), t3, Absent))>>)) :
     t1 \in FlatTemperatures \cup {TempProfile(Absent, Num(250), Num(330))},
     t2 \in {Absent, NoneV, Num(300), Str("hot")} \cup Profiles,
     t3 \in {Absent, Num(290), Num(700)}}

\* Radar family: the two SAR sources and their soil moisture estimates,
\* with an ocean source between them that may be null, empty or failed.
MoistureValues ==
    {Absent, NoneV, Num(-1), Num(0), Num(45), Num(100), Num(101), Str("wet")}

OceanEntries ==
    {NoneV, EmptyDict,
     SatData(Str("error"), Absent, Absent, Num(45)),
     SatData(Success, Absent, Absent, Num(45))}

RadarInputs ==
    {Input(Absent, Mapping(<<
        Item("risat", SatData(Str("simulated"), Absent, Absent, m1)),
        Item("oceansat", ocean),
        Item("sentinel1", SatData(Success, Absent, Absent, m2))>>)) :
     m1 \in MoistureValues, ocean \in OceanEntries, m2 \in MoistureValues}

\* A successful entry carrying one reading of one metric.
SingleEntry(metric, n) ==
    CASE metric = "ndvi" -> SatData(Success, Indices(Num(n), Absent), Absent, Absent)
      [] metric = "evi" -> SatData(Success, Indices(Absent, Num(n)), Absent, Absent)
      [] metric = "temperature" -> SatData(Success, Absent, Num(n), Absent)
      [] metric = "soil_moisture" -> SatData(Success, Absent, Absent, Num(n))

\* Agreeing family: the first one, two or all of a metric's sources, in
\* either order, reporting the same in-range value for it.
ReaderOrders(metric) ==
    CASE metric \in {"ndvi", "evi"} -> {<<"sentinel2", "landsat8", "irs">>,
                                        <<"irs", "landsat8", "sentinel2">>}
      [] metric = "temperature" -> {<<"landsat8", "modis", "irs">>,
                                    <<"irs", "modis", "landsat8">>}
      [] metric = "soil_moisture" -> {<<"sentinel1", "risat">>, <<"risat", "sentinel1">>}

AgreedReadings(metric) ==
    CASE metric \in {"ndvi", "evi"} -> {-40, 65}
      [] metric = "temperature" -> {285}
      [] metric = "soil_moisture" -> {45}

AgreeingPrefixes(metric, order) ==
    {Input(Absent, Mapping([i \in 1..k |-> Item(order[i], SingleEntry(metric, n))])) :
        k \in 1..Len(order), n \in AgreedReadings(metric)}

AgreeingInputs ==
    UNION {UNION {AgreeingPrefixes(metric, order) : order \in ReaderOrders(metric)} :
           metric \in Metrics}

\* Boundary family: every source of a metric reporting, the readings
\* spread so that the variance falls on, just under and just over the
\* agreement thresholds: ndvi 0, 0.30, 0.30 has variance 0.02, two
\* temperatures 2.0 apart have 1.0, two moistures 10 apart have 25.
SpreadReadings(metric) ==
    CASE metric \in {"ndvi", "evi"} ->
            {<<0, 29, 30>>, <<0, 30, 30>>, <<0, 30, 31>>, <<0, 47, 47>>, <<0, 47, 48>>,
             <<-100, 100, 100>>}
      [] metric = "temperature" ->
            {<<280, 281, 300>>, <<280, 299, 300>>, <<280, 300>>, <<281, 300>>,
             <<280, 314>>, <<280, 315>>}
      [] metric = "soil_moisture" -> {<<40, 49>>, <<40, 50>>, <<40, 54>>, <<40, 55>>}

FirstOrder(metric) ==
    CASE metric \in {"ndvi", "evi"} -> <<"sentinel2", "landsat8", "irs">>
      [] metric = "temperature" -> <<"landsat8", "modis", "irs">>
      [] metric = "soil_moisture" -> <<"sentinel1", "risat">>

BoundaryInputs ==
    UNION {{Input(Absent, Mapping([i \in 1..Len(readings) |->
                      Item(FirstOrder(metric)[i], SingleEntry(metric, readings[i]))])) :
              readings \in SpreadReadings(metric)} :
           metric \in Metrics}

\* Consensus family: five sources, each metric either reported by none of
\* them or by two whose readings are equal, moderately apart or far apart.
Tiers == {"none", "High", "Medium", "Low"}

BaseReading(metric) ==
    CASE metric \in {"ndvi", "evi"} -> 0
      [] metric = "temperature" -> 280
      [] metric = "soil_moisture" -> 40

Gap(metric, tier) ==
    CASE metric \in {"ndvi", "evi"} -> IF tier = "High" THEN 0
                                       ELSE IF tier = "Medium" THEN 30 ELSE 100
      [] metric = "temperature" -> IF tier = "High" THEN 0
                                    ELSE IF tier = "Medium" THEN 20 ELSE 40
      [] metric = "soil_moisture" -> IF tier = "High" THEN 0
                                      ELSE IF tier = "Medium" THEN 10 ELSE 20

\* The readings of the two sources of a metric.
ReadingPair(metric, tier) ==
    IF tier = "none" THEN <<Absent, Absent>>
    ELSE <<Num(BaseReading(metric)), Num(BaseReading(metric) + Gap(metric, tier))>>

ConsensusInput(ndvi, evi, temperature, moisture) ==
    Input(Absent, Mapping(<<
        Item("sentinel2", SatData(Success, Indices(ndvi[1], evi[1]), Absent, Absent)),
        Item("landsat8", SatData(Success, Indices(ndvi[2], evi[2]), temperature[1], Absent)),
        Item("modis", SatData(Success, Absent, temperature[2], Absent)),
        Item("sentinel1", SatData(Success, Absent, Absent, moisture[1])),
        Item("risat", SatData(Success, Absent, Absent, moisture[2]))>>))

ConsensusInputs ==
    {ConsensusInput(ReadingPair("ndvi", n), ReadingPair("evi", e),
                    ReadingPair("temperature", t), ReadingPair("soil_moisture", m)) :
        n \in Tiers, e \in Tiers, t \in Tiers, m \in Tiers}

\* Quality family: one to three optical sources agreeing on ndvi, followed
\* by up to two valid sources that carry no reading of any metric.
Bystanders ==
    <<Item("cartosat", SatData(Success, Absent, Absent, Absent)),
      Item("oceansat", SatData(Str("simulated"), Absent, Absent, Absent))>>

QualityInputs ==
    {Input(Absent, Mapping([i \in 1..k |-> Item(FirstOrder("ndvi")[i], SingleEntry("ndvi", 64))]
                           \o SubSeq(Bystanders, 1, extra))) :
        k \in 1..3, extra \in 0..2}

\* Foreign family: valid sources that carry, beside their own readings,
\* fields that only other sources are read for.
ForeignIndices == {Absent, Indices(Num(10), Num(20)), Indices(Str("n/a"), Absent)}

ForeignItems(t, m, modis_indices, radar_indices, radar_temperature) ==
    <<Item("sentinel2", SatData(Success, Indices(Num(65), Absent), t, m)),
      Item("modis", SatData(Success, modis_indices, Num(290), Absent)),
      Item("sentinel1", SatData(Str("fallback"), radar_indices, radar_temperature, Num(40))),
      Item("cartosat", SatData(Success, Indices(Num(90), Num(90)), Num(200), Num(10)))>>

ForeignInputs ==
    {Input(Absent, Mapping(SubSeq(ForeignItems(t, m, mi, ri, rt), 1, k))) :
        t \in {Absent, Num(300)}, m \in {Absent, Num(45)}, mi \in ForeignIndices,
        ri \in {Absent, Indices(Num(-50), Absent)}, rt \in {Absent, Num(100)},
        k \in {3, 4}}

Inputs == TopLevelShapes \cup GeneralInputs \cup OpticalInputs
          \cup ThermalInputs \cup RadarInputs \cup AgreeingInputs \cup BoundaryInputs
          \cup ConsensusInputs \cup QualityInputs \cup ForeignInputs

\* Single-source family: one valid source reporting one in-range value for
\* one metric it is read for.
SingleReadings(metric) ==
    CASE metric \in {"ndvi", "evi"} -> {-100, -99, 0, 7, 65, 95, 100}
      [] metric = "temperature" -> {0, 9, 19, 39, 285, 600}
      [] metric = "soil_moisture" -> {0, 3, 21, 45, 100}

SingleReaders(metric) ==
    CASE metric \in {"ndvi", "evi"} -> OpticalIds
      [] metric = "temperature" -> ThermalIds
      [] metric = "soil_moisture" -> SarIds

SingleSourceInputs ==
    UNION {{Input(Absent, Mapping(<<Item(name, SingleEntry(metric, n))>>)) :
              name \in SingleReaders(metric), n \in SingleReadings(metric)} :
           metric \in Metrics}

(***************************************************************************)
(* The state machine: a caller holds one input and calls the engine on it  *)
(* while the clock runs.                                                   *)
(***************************************************************************)
\* The request threads of the server, which share the one engine.
Threads == {"request1", "request2"}

\* A thread that has not called yet.
IdleRequest ==
    [pc |-> "idle", data |-> NoneV, clock |-> 0, valid_satellites |-> <<>>,
     i |-> 0, run |-> NothingRun, outcome |-> NoCall, overlapped |-> FALSE]

NoRequests == [t \in Threads |-> IdleRequest]

\* No second call has been prepared.
NoTwin == [k |-> "none"]

Init ==
    /\ satellite_data \in Inputs
    /\ now = 0
    /\ result = NoCall
    /\ previous = NoCall
    /\ executed = <<>>
    /\ passed = <<>>
    /\ satellite_weights = InitialWeights
    /\ binary64 = EmptyMap
    /\ requests = NoRequests
    /\ twin = NoTwin

\* Time passes.
Tick ==
    /\ now < MaxClock
    /\ now' = now + 1
    /\ UNCHANGED <<satellite_data, result, previous, executed, passed, satellite_weights,
                   binary64, requests, twin>>

\* engine.fuse_satellite_data(satellite_data), its numbers taken as reals.
FuseSatelliteData ==
    \E call \in {fuse_satellite_data(satellite_data, now, satellite_weights)} :
        /\ result' = call.outcome
        /\ previous' = result
        /\ executed' = call.executed
        /\ passed' = call.passed
        /\ UNCHANGED <<satellite_data, now, satellite_weights, binary64, requests, twin>>

Next == Tick \/ FuseSatelliteData

Spec == Init /\ [][Next]_vars

(***************************************************************************)
(* The same caller on the single-source family, with the fused values      *)
(* also computed as the doubles the interpreter produces.                  *)
(***************************************************************************)
FloatInit ==
    /\ satellite_data \in SingleSourceInputs
    /\ now = 0
    /\ result = NoCall
    /\ previous = NoCall
    /\ executed = <<>>
    /\ passed = <<>>
    /\ satellite_weights = InitialWeights
    /\ binary64 = EmptyMap
    /\ requests = NoRequests
    /\ twin = NoTwin

\* engine.fuse_satellite_data(satellite_data)
FuseSatelliteDataFloat ==
    \E call \in {fuse_satellite_data(satellite_data, now, satellite_weights)} :
        /\ result' = call.outcome
        /\ previous' = result
        /\ executed' = call.executed
        /\ passed' = call.passed
        /\ binary64' = FloatMetrics(call, satellite_weights)
        /\ UNCHANGED <<satellite_data, now, satellite_weights, requests, twin>>

FloatNext == Tick \/ FuseSatelliteDataFloat

FloatSpec == FloatInit /\ [][FloatNext]_vars

(***************************************************************************)
(* Concurrent calls: each request thread calls fuse_satellite_data once    *)
(* on the shared engine with an input of its own.  `fused`,                *)
(* `valid_satellites` and the routines' dicts are locals of the call; the  *)
(* only object the calls share is self.satellite_weights.  A step is one   *)
(* statement block of the call; blocks of different threads interleave.    *)
(***************************************************************************)
ThreadInputs ==
    {Input(Absent, Absent),
     Input(Absent, NoneV),
     Input(Absent, Mapping(<<Item("sentinel2", SatData(Str("error"), Absent, Absent, Absent))>>)),
     Input(SomeLocation, Mapping(<<
         Item("sentinel2", SingleEntry("ndvi", 65)),
         Item("landsat8", SatData(Success, Indices(Num(63), Num(50)), Num(285), Absent))>>)),
     Input(Absent, Mapping(<<
         Item("sentinel1", SingleEntry("soil_moisture", 45)),
         Item("modis", SingleEntry("temperature", 300))>>)),
     Input(Absent, Mapping(<<
         Item("irs", SatData(Success, Indices(Num(64), Absent), Str("hot"), Absent))>>))}

\* Another thread is inside its call.
Overlaps(t) == \E u \in Threads \ {t} : requests[u].pc \notin {"idle", "done"}

\* Mutant: the accumulator is one object shared by every call.
LocalRun_shared(reqs, t) == reqs[CHOOSE u \in Threads : TRUE].run

\* The `fused` dict of thread t's call: a local of that call.
LocalRun(reqs, t) == reqs[t].run

Done(request, outcome) == [request EXCEPT !.pc = "done", !.outcome = outcome]

\* The call is entered and the input checked.
Begin(t) ==
    /\ requests[t].pc = "idle"
    /\ \E data \in ThreadInputs :
          requests' = [requests EXCEPT ![t] =
              IF InputFalsy(data) \/ data.satellites.t = "absent"
              THEN Done([@ EXCEPT !.data = data], Returned(ErrorReport))
              ELSE [@ EXCEPT !.data = data, !.pc = "init", !.overlapped = Overlaps(t)]]
    /\ UNCHANGED <<satellite_data, now, result, previous, executed, passed,
                   satellite_weights, binary64, twin>>

\* `fused` is allocated with the time of the call.
Allocate(t) ==
    /\ requests[t].pc = "init"
    /\ requests' = [requests EXCEPT ![t] =
          [@ EXCEPT !.clock = now, !.pc = "filter", !.overlapped = @ \/ Overlaps(t)]]
    /\ UNCHANGED <<satellite_data, now, result, previous, executed, passed,
                   satellite_weights, binary64, twin>>

\* The sources are filtered; an empty selection ends the call.
Filter(t) ==
    /\ requests[t].pc = "filter"
    /\ requests' = [requests EXCEPT ![t] =
          IF @.data.satellites.t # "dict"
          THEN Done(@, Raised("AttributeError"))
          ELSE IF filter_valid_satellites(@.data.satellites.items) = <<>>
          THEN Done(@, Returned(NoValidDataReport(@.data, @.clock)))
          ELSE [@ EXCEPT !.valid_satellites =
                             filter_valid_satellites(requests[t].data.satellites.items),
                         !.i = 1, !.pc = "routine",
                         !.overlapped = @ \/ Overlaps(t)]]
    /\ UNCHANGED <<satellite_data, now, result, previous, executed, passed,
                   satellite_weights, binary64, twin>>

\* The next "fuse, then store if truthy" block; an exception ends the call.
RunRoutine(t) ==
    /\ requests[t].pc = "routine"
    /\ \E run \in {Store(LocalRun(requests, t), RoutineOrder[requests[t].i],
                         Routine(RoutineOrder[requests[t].i], requests[t].valid_satellites,
                                 satellite_weights))} :
          requests' = [requests EXCEPT ![t] =
              IF run.exc # ""
              THEN Done([@ EXCEPT !.run = run], Raised(run.exc))
              ELSE [@ EXCEPT !.run = run, !.i = @ + 1,
                             !.pc = IF requests[t].i = Len(RoutineOrder)
                                    THEN "aggregate" ELSE "routine",
                             !.overlapped = @ \/ Overlaps(t)]]
    /\ UNCHANGED <<satellite_data, now, result, previous, executed, passed,
                   satellite_weights, binary64, twin>>

\* The overall figures are computed and the report is returned.
Aggregate(t) ==
    /\ requests[t].pc = "aggregate"
    /\ requests' = [requests EXCEPT ![t] =
          Done(@, Finish(@.data, @.clock, @.valid_satellites,
                         LocalRun(requests, t)).outcome)]
    /\ UNCHANGED <<satellite_data, now, result, previous, executed, passed,
                   satellite_weights, binary64, twin>>

ThreadInit ==
    /\ satellite_data = NoneV
    /\ now = 0
    /\ result = NoCall
    /\ previous = NoCall
    /\ executed = <<>>
    /\ passed = <<>>
    /\ satellite_weights = InitialWeights
    /\ binary64 = EmptyMap
    /\ requests = NoRequests
    /\ twin = NoTwin

ThreadNext ==
    \/ Tick
    \/ \E t \in Threads : Begin(t)
    \/ \E t \in Threads : Allocate(t)
    \/ \E t \in Threads : Filter(t)
    \/ \E t \in Threads : RunRoutine(t)
    \/ \E t \in Threads : Aggregate(t)

ThreadSpec == ThreadInit /\ [][ThreadNext]_vars

(***************************************************************************)
(* The caller and a second call: on a copy of its input in which the       *)
(* status of one accepted source is replaced by another accepted tag, as   *)
(* the test data mixes 'success' and 'simulated' entries.                  *)
(***************************************************************************)
TagInputs == RadarInputs \cup ForeignInputs \cup QualityInputs

\* Positions of the entries the filter keeps.
Kept(items) == {i \in 1..Len(items) : IsValidSatellite(items[i].data)}

\* The input with the status of the source at one position replaced.
Retagged(data, position, tag) ==
    Input(data.location,
          Mapping([data.satellites.items EXCEPT
                      ![position] = Item(data.satellites.items[position].name,
                                         [data.satellites.items[position].data
                                             EXCEPT !.status = Str(tag)])]))

\* The caller copies its input and replaces the tag of one valid source.
Retag ==
    /\ twin = NoTwin
    /\ \E position \in Kept(satellite_data.satellites.items) :
          \E tag \in AcceptedStatuses
                      \ {satellite_data.satellites.items[position].data.status.s} :
              twin' = [k |-> "copy", position |-> position, tag |-> tag,
                       data |-> Retagged(satellite_data, position, tag)]
    /\ UNCHANGED <<satellite_data, now, result, previous, executed, passed,
                   satellite_weights, binary64, requests>>

\* engine.fuse_satellite_data(copy)
FuseTwin ==
    /\ twin.k = "copy"
    /\ twin' = [k |-> "called", position |-> twin.position, tag |-> twin.tag,
                data |-> twin.data,
                outcome |-> fuse_satellite_data(twin.data, now, satellite_weights).outcome]
    /\ UNCHANGED <<satellite_data, now, result, previous, executed, passed,
                   satellite_weights, binary64, requests>>

TagInit ==
    /\ satellite_data \in TagInputs
    /\ now = 0
    /\ result = NoCall
    /\ previous = NoCall
    /\ executed = <<>>
    /\ passed = <<>>
    /\ satellite_weights = InitialWeights
    /\ binary64 = EmptyMap
    /\ requests = NoRequests
    /\ twin = NoTwin

TagNext == Tick \/ FuseSatelliteData \/ Retag \/ FuseTwin

TagSpec == TagInit /\ [][TagNext]_vars

(***************************************************************************)
(* Vocabulary of the properties.                                           *)
(***************************************************************************)
Called == result.k # "nocall"
CalledTwice == result.k # "nocall" /\ previous.k # "nocall"
ReturnedReport == result.k = "returned"
Succeeded == ReturnedReport /\ result.report.status = "success"

\* The input has a 'satellites' mapping.
HasMapping == satellite_data.t = "dict" /\ satellite_data.satellites.t = "dict"

InputItems == satellite_data.satellites.items

\* An outcome with the report's timestamp left out.
WithoutTimestamp(outcome) ==
    IF outcome.k = "returned"
    THEN [f \in DOMAIN outcome.report \ {"timestamp"} |-> outcome.report[f]]
    ELSE outcome

RatEq(a, n, d) == a = Rat(n, d)
Between(lo, x, hi) == RatLE(lo, x) /\ RatLE(x, hi)

C2_NeverRaises == (Called /\ HasMapping) => ReturnedReport

(***************************************************************************)
(* The scenario of C3: the sources that pass the filter are exactly        *)
(* sentinel2 with ndvi 0.65, landsat8 with ndvi 0.63 and irs with          *)
(* ndvi 0.64.                                                              *)
(***************************************************************************)
HasNdvi(items, name, n) ==
    \E i \in 1..Len(items) :
        /\ items[i].name = name
        /\ items[i].data.indices.t = "dict"
        /\ items[i].data.indices.ndvi = Num(n)

Scenario ==
    /\ ReturnedReport
    /\ KeySet(passed) = {"sentinel2", "landsat8", "irs"}
    /\ HasNdvi(passed, "sentinel2", 65)
    /\ HasNdvi(passed, "landsat8", 63)
    /\ HasNdvi(passed, "irs", 64)

(***************************************************************************)
(* C3 as stated: in the scenario the fused ndvi is about 0.641, its        *)
(* variance about 0.00007, its agreement "High" and its confidence above   *)
(* 0.9.                                                                    *)
(***************************************************************************)
C3_ScenarioAsStated ==
    Scenario =>
        /\ Between(Rat(640, 1000), result.report.fused_metrics["ndvi"], Rat(642, 1000))
        /\ Between(Rat(65, 1000000), result.report.cross_validation["ndvi"].variance,
                   Rat(75, 1000000))
        /\ result.report.cross_validation["ndvi"].agreement = "High"
        /\ RatLT(Rat(9, 10), result.report.confidence_scores["ndvi"])

(***************************************************************************)
(* C3 as amended: in the scenario the fused ndvi is 1.729 / 2.7 (about     *)
(* 0.640), its variance 1 / 15000 (about 0.00007), its agreement "High",   *)
(* and its confidence 0.6 * 3/4 + 0.4 * (1 - variance / 0.04) = 637 / 750  *)
(* (about 0.849), which is above 0.8 and below 0.9.                        *)
(***************************************************************************)
C3_ScenarioAmended ==
    Scenario =>
        /\ RatEq(result.report.fused_metrics["ndvi"], 1729, 2700)
        /\ Between(Rat(640, 1000), result.report.fused_metrics["ndvi"], Rat(642, 1000))
        /\ RatEq(result.report.cross_validation["ndvi"].variance, 1, 15000)
        /\ result.report.cross_validation["ndvi"].agreement = "High"
        /\ RatEq(result.report.confidence_scores["ndvi"], 637, 750)
        /\ RatLT(Rat(8, 10), result.report.confidence_scores["ndvi"])
        /\ RatLT(result.report.confidence_scores["ndvi"], Rat(9, 10))

C3_Witness == Scenario /\ result.report.cross_validation["ndvi"].num_sources = 3

(***************************************************************************)
(* Reading the input declaratively.                                        *)
(***************************************************************************)
StatusIs(sat_data, tags) ==
    /\ sat_data.t = "dict"
    /\ sat_data.status.t = "str"
    /\ sat_data.status.s \in tags

\* Positions of the input entries that are present, non-empty and carry an
\* accepted status.
AcceptedPositions(items) ==
    {i \in 1..Len(items) :
        /\ items[i].data.t = "dict"
        /\ items[i].data # EmptyDict
        /\ StatusIs(items[i].data, {"success", "fallback", "simulated"})}

ErrorPositions(items) ==
    {i \in 1..Len(items) : StatusIs(items[i].data, {"error"})}

\* The subsequence of items at the positions of keep.
RECURSIVE SubSeqAt(_, _, _)
SubSeqAt(items, keep, i) ==
    IF i > Len(items) THEN <<>>
    ELSE IF i \in keep THEN <<items[i]>> \o SubSeqAt(items, keep, i + 1)
    ELSE SubSeqAt(items, keep, i + 1)

\* The input with its "error" sources removed from the mapping.
WithoutErrorSources(data) ==
    Input(data.location,
          Mapping(SubSeqAt(data.satellites.items,
                           (1..Len(data.satellites.items))
                               \ ErrorPositions(data.satellites.items), 1)))

\* When the latest call read the clock.
CallTime ==
    IF ReturnedReport /\ "timestamp" \in DOMAIN result.report
    THEN result.report.timestamp ELSE 0

Contributors(report, metric) ==
    IF metric \in DOMAIN report.cross_validation
    THEN DOMAIN report.cross_validation[metric].sources ELSE {}

(***************************************************************************)
(* C4: a source whose status is "error" never appears in data_sources nor  *)
(* among the sources of any metric's cross validation, and the call ends   *)
(* exactly as it would on the input without that source.                   *)
(***************************************************************************)
C4_ErrorSourcesExcluded ==
    (Called /\ HasMapping /\ ErrorPositions(InputItems) # {}) =>
        /\ result = fuse_satellite_data(WithoutErrorSources(satellite_data),
                                        CallTime, satellite_weights).outcome
        /\ ReturnedReport =>
              \A i \in ErrorPositions(InputItems) :
                  /\ \A j \in 1..Len(result.report.data_sources) :
                         result.report.data_sources[j] # InputItems[i].name
                  /\ \A metric \in Metrics :
                         InputItems[i].name \notin Contributors(result.report, metric)

\* sentinel2 failed, and the ndvi comes from landsat8 alone.
C4_Witness ==
    /\ Succeeded
    /\ \E i \in ErrorPositions(InputItems) : InputItems[i].name = "sentinel2"
    /\ Contributors(result.report, "ndvi") = {"landsat8"}

(***************************************************************************)
(* C5: data_sources lists, in input order, exactly the ids whose entry is  *)
(* present, non-empty and has an accepted status, and the per-metric       *)
(* routines are handed exactly those entries.                              *)
(***************************************************************************)
C5_SourceFilter ==
    (Called /\ HasMapping) =>
        LET kept == SubSeqAt(InputItems, AcceptedPositions(InputItems), 1)
        IN  /\ ReturnedReport => result.report.data_sources = Keys(kept)
            /\ executed # <<>> => passed = kept

\* Two sources are kept around one that is dropped.
C5_Witness ==
    /\ Succeeded
    /\ Len(InputItems) = 3
    /\ AcceptedPositions(InputItems) = {1, 3}
    /\ Len(result.report.data_sources) = 2

(***************************************************************************)
(* C6: when no source passes the filter, the report has status             *)
(* "no_valid_data", the explanatory message, empty fused_metrics,          *)
(* confidence_scores, cross_validation and data_sources, and no per-metric *)
(* routine has run.                                                        *)
(***************************************************************************)
C6_EmptyShortCircuits ==
    (Called /\ HasMapping /\ AcceptedPositions(InputItems) = {}) =>
        /\ ReturnedReport
        /\ result.report.status = "no_valid_data"
        /\ result.report.message = NoValidDataMessage
        /\ result.report.fused_metrics = EmptyMap
        /\ result.report.confidence_scores = EmptyMap
        /\ result.report.cross_validation = EmptyMap
        /\ result.report.data_sources = <<>>
        /\ executed = <<>>

\* Every entry of a non-empty mapping was filtered out.
C6_Witness ==
    /\ Called /\ HasMapping
    /\ Len(InputItems) = MaxSats
    /\ AcceptedPositions(InputItems) = {}
    /\ ErrorPositions(InputItems) # {}
    /\ result.report.status = "no_valid_data"

(***************************************************************************)
(* C7 as stated: a no_valid_data report carries every field of the output  *)
(* contract, with empty collections and overall_confidence 0.0.            *)
(***************************************************************************)
ContractFields ==
    {"status", "data_sources", "fused_metrics", "confidence_scores",
     "cross_validation", "overall_confidence", "consensus_level", "overall_quality"}

C7_EmptyReportWellFormed ==
    (ReturnedReport /\ result.report.status = "no_valid_data") =>
        /\ ContractFields \subseteq DOMAIN result.report
        /\ result.report.fused_metrics = EmptyMap
        /\ result.report.confidence_scores = EmptyMap
        /\ result.report.cross_validation = EmptyMap
        /\ result.report.data_sources = <<>>
        /\ result.report.overall_confidence = Zero

(***************************************************************************)
(* C8 as stated: when the input is empty or lacks 'satellites', the call   *)
(* returns a report with status "error" whose message names the missing    *)
(* field, and neither filters nor fuses.                                   *)
(***************************************************************************)
LacksMapping == InputFalsy(satellite_data) \/ satellite_data.satellites.t = "absent"

Mentions(message, word) == \E i \in 1..Len(message) : message[i] = word

C8_MessageNamesField ==
    (Called /\ LacksMapping) =>
        /\ ReturnedReport
        /\ result.report.status = "error"
        /\ Mentions(result.report.message, "satellites")
        /\ executed = <<>>

(***************************************************************************)
(* C8 as amended: when the input is empty or lacks the 'satellites' key,   *)
(* the call returns a report that holds only status "error" and the        *)
(* generic message "Invalid input data", which does not name the missing   *)
(* field, and neither filters nor fuses.                                   *)
(***************************************************************************)
C8_InputStructureError ==
    (Called /\ LacksMapping) =>
        /\ ReturnedReport
        /\ DOMAIN result.report = {"status", "message"}
        /\ result.report.status = "error"
        /\ result.report.message = <<"Invalid", "input", "data">>
        /\ ~Mentions(result.report.message, "satellites")
        /\ executed = <<>>
        /\ passed = <<>>

\* A non-empty input without the 'satellites' key.
C8_Witness ==
    /\ Called
    /\ satellite_data = Input(SomeLocation, Absent)
    /\ result.report.status = "error"

(***************************************************************************)
(* Valid ranges and eligible sources of the metrics.                       *)
(***************************************************************************)
RangeLow(metric) ==
    CASE metric \in {"ndvi", "evi"} -> -1
      [] metric = "temperature" -> 0
      [] metric = "soil_moisture" -> 0

RangeHigh(metric) ==
    CASE metric \in {"ndvi", "evi"} -> 1
      [] metric = "temperature" -> 60
      [] metric = "soil_moisture" -> 100

Eligible(metric) ==
    CASE metric \in {"ndvi", "evi"} -> {"sentinel2", "landsat8", "irs"}
      [] metric = "temperature" -> {"landsat8", "modis", "irs"}
      [] metric = "soil_moisture" -> {"sentinel1", "risat"}

\* The value a source reports for a metric, where the read itself does not
\* fail: the field the routine looks at, None when it is missing.
Reported(metric, name, sat_data) ==
    CASE metric \in {"ndvi", "evi"} ->
            IF sat_data.indices.t = "dict" THEN Get(sat_data.indices[metric]) ELSE NoneV
      [] metric = "temperature" ->
            IF sat_data.temperature.t # "dict" THEN Get(sat_data.temperature)
            ELSE IF name # "modis" THEN sat_data.temperature
            ELSE IF sat_data.temperature.land_surface.t # "absent"
                 THEN sat_data.temperature.land_surface
                 ELSE Get(sat_data.temperature.mean)
      [] metric = "soil_moisture" -> Get(sat_data.soil_moisture_estimate)

NumberInRange(metric, v) ==
    /\ v.t = "num"
    /\ RangeLow(metric) * Unit(metric) <= v.n
    /\ v.n <= RangeHigh(metric) * Unit(metric)

\* Missing, or a number outside the metric's range.
Defect(metric, v) == v.t = "none" \/ (v.t = "num" /\ ~NumberInRange(metric, v))

\* The entry holds nothing but numbers and missing values where the
\* routines read.
WellTyped(name, sat_data) ==
    /\ sat_data.indices.t \in {"absent", "dict"}
    /\ \A metric \in Metrics :
          name \in Eligible(metric) => Reported(metric, name, sat_data).t \in {"none", "num"}

(***************************************************************************)
(* C9: every value in fused_metrics lies within its metric's valid range:  *)
(* [-1, 1] for ndvi and evi, [0, 100] for soil_moisture, [0, 60] for       *)
(* temperature.                                                            *)
(***************************************************************************)
C9_FusedInRange ==
    (ReturnedReport /\ "fused_metrics" \in DOMAIN result.report) =>
        \A metric \in DOMAIN result.report.fused_metrics :
            Between(Rat(RangeLow(metric), 1), result.report.fused_metrics[metric],
                    Rat(RangeHigh(metric), 1))

\* A temperature was fused although one thermal source reported 60.1.
C9_Witness ==
    /\ Succeeded
    /\ "temperature" \in DOMAIN result.report.fused_metrics
    /\ \E i \in 1..Len(passed) : passed[i].data.temperature = Num(601)

SingleInput ==
    /\ HasMapping
    /\ Len(InputItems) = 1
    /\ \E metric \in Metrics :
          \E n \in SingleReadings(metric) :
              InputItems[1].data = SingleEntry(metric, n)

SingleMetric ==
    CHOOSE metric \in Metrics :
        \E n \in SingleReadings(metric) : InputItems[1].data = SingleEntry(metric, n)

SingleValue ==
    CHOOSE n \in SingleReadings(SingleMetric) :
        InputItems[1].data = SingleEntry(SingleMetric, n)

(***************************************************************************)
(* C11 as stated: fusing one valid source that reports one in-range value  *)
(* v for a metric yields a fused value equal to v, variance 0, agreement   *)
(* "High", num_sources 1 and confidence 0.6 * 0.25 + 0.4 * 1 = 0.55.       *)
(***************************************************************************)
C11_RoundTrip ==
    (Called /\ SingleInput) =>
        /\ Succeeded
        /\ DOMAIN result.report.fused_metrics = {SingleMetric}
        /\ binary64[SingleMetric] = Literal(SingleValue, Unit(SingleMetric))
        /\ result.report.cross_validation[SingleMetric].variance = Zero
        /\ result.report.cross_validation[SingleMetric].agreement = "High"
        /\ result.report.cross_validation[SingleMetric].num_sources = 1
        /\ result.report.confidence_scores[SingleMetric] = Rat(55, 100)

(***************************************************************************)
(* The input with one source taken out of its mapping.                     *)
(***************************************************************************)
InputWithout(data, name) ==
    Input(data.location,
          Mapping(SubSeqAt(data.satellites.items,
                           {i \in 1..Len(data.satellites.items) :
                               data.satellites.items[i].name # name}, 1)))

\* The contributors of a metric all report the same value.
Agreeing(report, metric) ==
    \A a \in Contributors(report, metric) : \A b \in Contributors(report, metric) :
        report.cross_validation[metric].sources[a]
            = report.cross_validation[metric].sources[b]

\* The confidence of a metric in the report of the call without one source.
ConfidenceWithout(name, metric) ==
    fuse_satellite_data(InputWithout(satellite_data, name), CallTime,
                        satellite_weights).outcome.report.confidence_scores[metric]

(***************************************************************************)
(* C12: when the contributors of a metric all report the same value, the   *)
(* metric's confidence is at least what it is in the report of the input   *)
(* without any one of them: adding an agreeing source never lowers it.     *)
(***************************************************************************)
C12_AgreeingSourceKeepsConfidence ==
    Succeeded =>
        \A metric \in DOMAIN result.report.cross_validation :
            (Agreeing(result.report, metric)
               /\ Cardinality(Contributors(result.report, metric)) >= 2) =>
                \A name \in Contributors(result.report, metric) :
                    RatLE(ConfidenceWithout(name, metric),
                          result.report.confidence_scores[metric])

\* Three agreeing temperature sources: 0.85, above the 0.7 of any two.
C12_Witness ==
    /\ Succeeded
    /\ Contributors(result.report, "temperature") = {"landsat8", "modis", "irs"}
    /\ Agreeing(result.report, "temperature")
    /\ result.report.confidence_scores["temperature"] = Rat(85, 100)
    /\ ConfidenceWithout("modis", "temperature") = Rat(70, 100)

\* A temperature profile holding an in-range number under one of the fields
\* a profile is read by.
NestedInRange(temperature) ==
    /\ temperature.t = "dict"
    /\ \E field \in {"land_surface", "mean", "day"} :
           NumberInRange("temperature", temperature[field])

\* Every accepted entry but the one at position i is well typed.
OthersWellTyped(i) ==
    \A j \in AcceptedPositions(InputItems) \ {i} :
        WellTyped(InputItems[j].name, InputItems[j].data)

(***************************************************************************)
(* C13: an accepted temperature source whose temperature is a nested       *)
(* profile with an in-range day, mean or land_surface value is among the   *)
(* contributors of the fused temperature.                                  *)
(***************************************************************************)
C13_NestedReadingContributes ==
    (Called /\ HasMapping) =>
        \A i \in AcceptedPositions(InputItems) :
            (/\ InputItems[i].name \in Eligible("temperature")
             /\ NestedInRange(InputItems[i].data.temperature)
             /\ OthersWellTyped(i)) =>
                /\ Succeeded
                /\ InputItems[i].name \in Contributors(result.report, "temperature")

\* What thread t's call returns when it runs alone, its clock read at the
\* same time.
Alone(t) ==
    fuse_satellite_data(requests[t].data, requests[t].clock, InitialWeights).outcome

(***************************************************************************)
(* C14: however the calls of the request threads interleave, every call    *)
(* that has ended ended exactly as it does when run alone on its input,    *)
(* and the weight table the calls share is as it was constructed.          *)
(***************************************************************************)
C14_ConcurrentCallsIsolated ==
    /\ satellite_weights = InitialWeights
    /\ \A t \in Threads :
          requests[t].pc = "done" => requests[t].outcome = Alone(t)

\* Two calls that overlapped in time, on different inputs, both ended with
\* a successful report, each with the metrics of its own input only.
C14_Witness ==
    /\ \A t \in Threads :
          /\ requests[t].pc = "done"
          /\ requests[t].overlapped
          /\ requests[t].outcome.k = "returned"
          /\ requests[t].outcome.report.status = "success"
    /\ DOMAIN requests["request1"].outcome.report.fused_metrics
          = {"ndvi", "temperature", "evi"}
    /\ DOMAIN requests["request2"].outcome.report.fused_metrics
          = {"temperature", "soil_moisture"}

\* The eight source ids the engine knows.
KnownSources ==
    {"sentinel2", "landsat8", "sentinel1", "modis", "irs", "risat", "cartosat", "oceansat"}

\* The table holds a weight in (0, 1] for each known source and nothing else.
WeightTableSound ==
    /\ DOMAIN satellite_weights = KnownSources
    /\ \A id \in KnownSources : 0 < satellite_weights[id] /\ satellite_weights[id] <= 100

(***************************************************************************)
(* C15: at all times the weight table holds a weight in (0, 1] for each of *)
(* the eight known sources, and no step of the engine changes the table or *)
(* the caller's input mapping.                                             *)
(***************************************************************************)
C15_SideEffectFree ==
    /\ [](WeightTableSound /\ satellite_weights = InitialWeights)
    /\ [][satellite_data' = satellite_data /\ satellite_weights' = satellite_weights]_vars

\* A call that ran all four routines and returned, twice, on a mapping
\* that still has its entries and with the table as constructed.
C15_Witness ==
    /\ CalledTwice
    /\ Succeeded
    /\ Len(executed) = Len(RoutineOrder)
    /\ HasMapping
    /\ Len(InputItems) >= 2
    /\ WeightTableSound

\* The table's weight of a source, as a number.
TableWeight(name) == Rat(satellite_weights[name], 100)

\* Sum of value times weight, and of the weights, over the sources a
\* report lists for a metric.
ListedProducts(report, metric) ==
    SumOver([name \in Contributors(report, metric) |->
                RatMul(report.cross_validation[metric].sources[name], TableWeight(name))],
            Contributors(report, metric))

ListedWeights(report, metric) ==
    SumOver([name \in Contributors(report, metric) |-> TableWeight(name)],
            Contributors(report, metric))

(***************************************************************************)
(* C16: every fused metric has at least one listed source, all of them in  *)
(* the weight table, and its fused value is the sum of value times weight  *)
(* over the listed sources divided by the sum of their weights.            *)
(***************************************************************************)
C16_FusedIsWeightedMean ==
    Succeeded =>
        \A metric \in DOMAIN result.report.fused_metrics :
            /\ Contributors(result.report, metric) # {}
            /\ Contributors(result.report, metric) \subseteq DOMAIN satellite_weights
            /\ result.report.fused_metrics[metric]
                  = RatDiv(ListedProducts(result.report, metric),
                           ListedWeights(result.report, metric))

\* Three sources of unequal weight and value: the fused ndvi 1729/2700 is
\* not the plain mean 0.64.
C16_Witness ==
    /\ Succeeded
    /\ Contributors(result.report, "ndvi") = {"sentinel2", "landsat8", "irs"}
    /\ result.report.cross_validation["ndvi"].sources["sentinel2"] = Rat(65, 100)
    /\ result.report.cross_validation["ndvi"].sources["landsat8"] = Rat(63, 100)
    /\ result.report.cross_validation["ndvi"].sources["irs"] = Rat(64, 100)
    /\ result.report.fused_metrics["ndvi"] = Rat(1729, 2700)

\* The variance ceiling the confidence of a metric is measured against.
StatedMaxVariance(metric) ==
    IF metric = "temperature" THEN Rat(4, 1)
    ELSE IF metric = "soil_moisture" THEN Rat(100, 1)
    ELSE Rat(4, 100)

\* 0.6 * min(n / 4, 1) + 0.4 * max(0, 1 - variance / max_variance)
StatedConfidence(metric, n, variance) ==
    RatAdd(RatMul(Rat(6, 10), RatMin(Rat(n, 4), One)),
           RatMul(Rat(4, 10),
                  RatMax(Zero, RatSub(One, RatDiv(variance, StatedMaxVariance(metric))))))

(***************************************************************************)
(* C17: the confidence of every fused metric is                            *)
(* 0.6 * min(n / 4, 1) + 0.4 * max(0, 1 - variance / max_variance), n the  *)
(* number of its contributors and max_variance 0.04 for ndvi and evi, 4.0  *)
(* for temperature, 100 for soil_moisture; it lies in [0, 1].              *)
(***************************************************************************)
C17_ConfidenceFormula ==
    Succeeded =>
        /\ DOMAIN result.report.confidence_scores = DOMAIN result.report.fused_metrics
        /\ \A metric \in DOMAIN result.report.confidence_scores :
              /\ result.report.confidence_scores[metric]
                    = StatedConfidence(metric,
                                       Cardinality(Contributors(result.report, metric)),
                                       result.report.cross_validation[metric].variance)
              /\ Between(Zero, result.report.confidence_scores[metric], One)

\* Three thermal sources 1.5 degrees apart at most: variance 7/18, and the
\* confidence 0.45 + 0.4 * (1 - 7/72) = 73/90.
C17_Witness ==
    /\ Succeeded
    /\ Cardinality(Contributors(result.report, "temperature")) = 3
    /\ result.report.cross_validation["temperature"].variance = Rat(7, 18)
    /\ result.report.confidence_scores["temperature"] = Rat(73, 90)

\* The values a report lists for a metric, their mean, and the mean of
\* their squared deviations from it.
ListedValues(report, metric) == report.cross_validation[metric].sources

ListedMean(report, metric) ==
    RatDiv(SumOver(ListedValues(report, metric), Contributors(report, metric)),
           Rat(Cardinality(Contributors(report, metric)), 1))

SquaredDeviation(x, mean) == RatMul(RatSub(x, mean), RatSub(x, mean))

PopulationVariance(report, metric) ==
    RatDiv(SumOver([name \in Contributors(report, metric) |->
                       SquaredDeviation(ListedValues(report, metric)[name],
                                        ListedMean(report, metric))],
                   Contributors(report, metric)),
           Rat(Cardinality(Contributors(report, metric)), 1))

(***************************************************************************)
(* C18: the variance reported for a fused metric is the population         *)
(* variance of the values its sources reported, unweighted: the mean of    *)
(* the squared deviations from their mean, the sum divided by n.  It is 0  *)
(* with fewer than two contributors.                                       *)
(***************************************************************************)
C18_PopulationVariance ==
    Succeeded =>
        \A metric \in DOMAIN result.report.fused_metrics :
            /\ result.report.cross_validation[metric].variance
                  = PopulationVariance(result.report, metric)
            /\ Cardinality(Contributors(result.report, metric)) < 2
                  => result.report.cross_validation[metric].variance = Zero

\* ndvi 0.65, 0.63, 0.64 from sources of unequal weight: the variance is
\* 2/3 of 0.0001, where dividing by n - 1 gives 0.0001; beside it a metric
\* of one source with variance 0.
C18_Witness ==
    /\ Succeeded
    /\ Cardinality(Contributors(result.report, "ndvi")) = 3
    /\ result.report.cross_validation["ndvi"].variance = Rat(1, 15000)
    /\ \E metric \in DOMAIN result.report.fused_metrics :
          /\ Cardinality(Contributors(result.report, metric)) = 1
          /\ result.report.cross_validation[metric].variance = Zero

\* The thresholds of a metric: below low the sources agree highly, below
\* mid moderately.
StatedLow(metric) ==
    IF metric = "temperature" THEN Rat(1, 1)
    ELSE IF metric = "soil_moisture" THEN Rat(25, 1)
    ELSE Rat(2, 100)

StatedMid(metric) ==
    IF metric = "temperature" THEN Rat(3, 1)
    ELSE IF metric = "soil_moisture" THEN Rat(50, 1)
    ELSE Rat(5, 100)

(***************************************************************************)
(* C19: the agreement of a fused metric is "High" exactly when its         *)
(* variance is strictly below the metric's low threshold, "Medium" when it *)
(* is not but is strictly below the mid threshold, and "Low" otherwise,    *)
(* the thresholds being (0.02, 0.05) for ndvi and evi, (1.0, 3.0) for      *)
(* temperature and (25, 50) for soil_moisture.  A variance equal to the    *)
(* low threshold is "Medium", one equal to the mid threshold "Low".        *)
(***************************************************************************)
C19_AgreementTier ==
    Succeeded =>
        \A metric \in DOMAIN result.report.cross_validation :
            \E variance \in {result.report.cross_validation[metric].variance} :
                result.report.cross_validation[metric].agreement
                    = IF RatLT(variance, StatedLow(metric)) THEN "High"
                      ELSE IF RatLT(variance, StatedMid(metric)) THEN "Medium"
                      ELSE "Low"

\* The variance of a fused metric sits exactly on its low threshold and
\* the agreement is "Medium".
C19_Witness ==
    /\ Succeeded
    /\ \E metric \in DOMAIN result.report.cross_validation :
          /\ result.report.cross_validation[metric].variance = StatedLow(metric)
          /\ result.report.cross_validation[metric].agreement = "Medium"

\* How many fused metrics of a report have their agreement among tiers.
CountAgreeing(report, tiers) ==
    Cardinality({metric \in DOMAIN report.cross_validation :
                    report.cross_validation[metric].agreement \in tiers})

FusedCount(report) == Cardinality(DOMAIN report.fused_metrics)

(***************************************************************************)
(* C20: with n fused metrics, consensus_level is "Unknown" when n = 0,     *)
(* else "High" when at least 70% of them have agreement "High", else       *)
(* "Medium" when at least 70% have "High" or "Medium", else "Low"; with    *)
(* n <= 3 one metric that is not "High" rules out "High".                  *)
(***************************************************************************)
C20_ConsensusLevel ==
    Succeeded =>
        /\ DOMAIN result.report.cross_validation = DOMAIN result.report.fused_metrics
        /\ result.report.consensus_level
              = IF FusedCount(result.report) = 0 THEN "Unknown"
                ELSE IF 10 * CountAgreeing(result.report, {"High"})
                          >= 7 * FusedCount(result.report) THEN "High"
                ELSE IF 10 * CountAgreeing(result.report, {"High", "Medium"})
                          >= 7 * FusedCount(result.report) THEN "Medium"
                ELSE "Low"
        /\ (/\ FusedCount(result.report) <= 3
            /\ CountAgreeing(result.report, {"Medium", "Low"}) >= 1)
              => result.report.consensus_level # "High"

\* Four fused metrics, three of them "High" and one "Low": the consensus
\* is "High".
C20_Witness ==
    /\ Succeeded
    /\ FusedCount(result.report) = 4
    /\ CountAgreeing(result.report, {"High"}) = 3
    /\ CountAgreeing(result.report, {"Low"}) = 1
    /\ result.report.consensus_level = "High"

\* The grade of the decision table for an overall confidence and a number
\* of sources.
StatedQuality(confidence, count) ==
    IF RatLE(Rat(8, 10), confidence) /\ count >= 4 THEN "Excellent"
    ELSE IF RatLE(Rat(7, 10), confidence) /\ count >= 3 THEN "Good"
    ELSE IF RatLE(Rat(5, 10), confidence) /\ count >= 2 THEN "Fair"
    ELSE "Limited"

\* The sources that contribute to some metric of a report.
AllContributors(report) ==
    UNION {Contributors(report, metric) : metric \in DOMAIN report.cross_validation}

(***************************************************************************)
(* C21: in a success report overall_quality is "Excellent" when            *)
(* overall_confidence >= 0.8 and at least 4 sources passed the filter,     *)
(* else "Good" when >= 0.7 and at least 3, else "Fair" when >= 0.5 and at  *)
(* least 2, else "Limited"; the sources counted are those of data_sources, *)
(* which are the accepted entries of the input, contributors or not.       *)
(***************************************************************************)
C21_QualityTable ==
    Succeeded =>
        /\ Len(result.report.data_sources) = Cardinality(AcceptedPositions(InputItems))
        /\ result.report.overall_quality
              = StatedQuality(result.report.overall_confidence,
                              Len(result.report.data_sources))

\* Three contributors and a fourth source that contributes nothing: the
\* grade is "Excellent", which the three contributors alone do not reach.
C21_Witness ==
    /\ Succeeded
    /\ Len(result.report.data_sources) = 4
    /\ Cardinality(AllContributors(result.report)) = 3
    /\ result.report.overall_confidence = Rat(85, 100)
    /\ result.report.overall_quality = "Excellent"

\* n times x.
Times(n, x) == RatMul(Rat(n, 1), x)

(***************************************************************************)
(* C22: in a success report overall_confidence is the arithmetic mean of   *)
(* the values of confidence_scores, every fused metric counting once: the  *)
(* number of scores times overall_confidence is their sum.  It is 0.0 when *)
(* no metric was fused.                                                    *)
(***************************************************************************)
C22_OverallIsMean ==
    Succeeded =>
        IF DOMAIN result.report.confidence_scores = {}
        THEN result.report.overall_confidence = Zero
        ELSE Times(Cardinality(DOMAIN result.report.confidence_scores),
                   result.report.overall_confidence)
               = SumOver(result.report.confidence_scores,
                         DOMAIN result.report.confidence_scores)

\* Three fused metrics with three different confidences, the overall one
\* strictly between the lowest and the highest of them.
C22_Witness ==
    /\ Succeeded
    /\ Cardinality(DOMAIN result.report.confidence_scores) = 3
    /\ Cardinality({result.report.confidence_scores[metric] :
                       metric \in DOMAIN result.report.confidence_scores}) = 3
    /\ \E low, high \in DOMAIN result.report.confidence_scores :
          /\ RatLT(result.report.confidence_scores[low], result.report.overall_confidence)
          /\ RatLT(result.report.overall_confidence, result.report.confidence_scores[high])

(***************************************************************************)
(* C23: every report returned for an input with a 'satellites' mapping has *)
(* a status among success, no_valid_data and error, a consensus_level      *)
(* among High, Medium, Low and Unknown, and an overall_quality among       *)
(* Excellent, Good, Fair and Limited.                                      *)
(***************************************************************************)
C23_ValueDomains ==
    (ReturnedReport /\ HasMapping) =>
        /\ result.report.status \in {"success", "no_valid_data", "error"}
        /\ "consensus_level" \in DOMAIN result.report
        /\ result.report.consensus_level \in {"High", "Medium", "Low", "Unknown"}
        /\ "overall_quality" \in DOMAIN result.report
        /\ result.report.overall_quality \in {"Excellent", "Good", "Fair", "Limited"}

\* Some accepted entry of the input is read for the metric and reports an
\* in-range number for it.
HasContributor(metric) ==
    \E i \in AcceptedPositions(InputItems) :
        /\ InputItems[i].name \in Eligible(metric)
        /\ NumberInRange(metric, Reported(metric, InputItems[i].name, InputItems[i].data))

(***************************************************************************)
(* C24: whenever at least one source passes the filter the call returns a  *)
(* report with status "success"; a metric without contributors has no key  *)
(* in fused_metrics, confidence_scores or cross_validation; and when no    *)
(* metric was fused, fused_metrics is empty, overall_confidence is 0.0 and *)
(* consensus_level is "Unknown".                                           *)
(***************************************************************************)
C24_MissingMetricIsNoError ==
    (Called /\ HasMapping /\ AcceptedPositions(InputItems) # {}) =>
        /\ Succeeded
        /\ \A metric \in Metrics :
              ~HasContributor(metric) =>
                  /\ metric \notin DOMAIN result.report.fused_metrics
                  /\ metric \notin DOMAIN result.report.confidence_scores
                  /\ metric \notin DOMAIN result.report.cross_validation
        /\ (\A metric \in Metrics : ~HasContributor(metric)) =>
              /\ result.report.fused_metrics = EmptyMap
              /\ result.report.overall_confidence = Zero
              /\ result.report.consensus_level = "Unknown"

\* What the alias returns for the input of the latest call, its clock read
\* at the same time.
ViaAlias == fuse_all(satellite_data, CallTime, satellite_weights).outcome

(***************************************************************************)
(* C25: whenever an optical source (sentinel2, landsat8 or irs) passes the *)
(* filter with an ndvi in [-1, 1], fuse_satellite_data returns a report    *)
(* whose fused_metrics has an "ndvi" entry with a confidence beside it,    *)
(* and so does its alias fuse_all.                                         *)
(***************************************************************************)
C25_OpticalSourcesYieldNdvi ==
    (Called /\ HasMapping /\ HasContributor("ndvi")) =>
        /\ ReturnedReport
        /\ "fused_metrics" \in DOMAIN result.report
        /\ "ndvi" \in DOMAIN result.report.fused_metrics
        /\ "ndvi" \in DOMAIN result.report.confidence_scores
        /\ ViaAlias = result

\* The input entry of an accepted source.
EntryOf(name) ==
    InputItems[CHOOSE i \in AcceptedPositions(InputItems) : InputItems[i].name = name].data

\* The number a source reported for a metric, as the input holds it.
RawValue(metric, name) ==
    Real(metric, Reported(metric, name, EntryOf(name)).n)

ReportMaps == {"fused_metrics", "confidence_scores", "cross_validation"}

\* The three maps of a report agree with each other and with the input.
MapsConsistent(report) ==
    /\ DOMAIN report.fused_metrics \subseteq Metrics
    /\ DOMAIN report.confidence_scores = DOMAIN report.fused_metrics
    /\ DOMAIN report.cross_validation = DOMAIN report.fused_metrics
    /\ \A metric \in DOMAIN report.fused_metrics :
          /\ report.cross_validation[metric].fused = report.fused_metrics[metric]
          /\ report.cross_validation[metric].num_sources
                = Cardinality(Contributors(report, metric))
          /\ report.cross_validation[metric].num_sources >= 1
          /\ \A name \in Contributors(report, metric) :
                report.cross_validation[metric].sources[name] = RawValue(metric, name)

(***************************************************************************)
(* C26: in every returned report fused_metrics, confidence_scores and      *)
(* cross_validation have the same key set, a subset of the four metrics    *)
(* (the error report carries none of the three); for each key the fused    *)
(* value of the cross validation is the fused metric, num_sources is the   *)
(* number of entries of sources and at least 1, and sources holds for each *)
(* contributor the value its input entry reports, unmodified.              *)
(***************************************************************************)
C26_ReportConsistent ==
    ReturnedReport =>
        IF result.report.status = "error"
        THEN ReportMaps \cap DOMAIN result.report = {}
        ELSE ReportMaps \subseteq DOMAIN result.report /\ MapsConsistent(result.report)

\* Two fused metrics or more, one of them from three sources whose values
\* all differ from the fused one.
C26_Witness ==
    /\ Succeeded
    /\ Cardinality(DOMAIN result.report.fused_metrics) >= 2
    /\ \E metric \in DOMAIN result.report.fused_metrics :
          /\ result.report.cross_validation[metric].num_sources = 3
          /\ \A name \in Contributors(result.report, metric) :
                RawValue(metric, name) # result.report.fused_metrics[metric]

\* An entry with the fields removed that its source is not read for.
OwnIndices(name, sat_data) ==
    IF name \in Eligible("ndvi") THEN sat_data.indices ELSE Absent
OwnTemperature(name, sat_data) ==
    IF name \in Eligible("temperature") THEN sat_data.temperature ELSE Absent
OwnMoisture(name, sat_data) ==
    IF name \in Eligible("soil_moisture") THEN sat_data.soil_moisture_estimate ELSE Absent

OwnFields(name, sat_data) ==
    IF sat_data.t # "dict" \/ sat_data = EmptyDict THEN sat_data
    ELSE SatData(sat_data.status, OwnIndices(name, sat_data),
                 OwnTemperature(name, sat_data), OwnMoisture(name, sat_data))

\* The input with every foreign field removed.
WithoutForeignFields(data) ==
    Input(data.location,
          Mapping([i \in 1..Len(data.satellites.items) |->
                      Item(data.satellites.items[i].name,
                           OwnFields(data.satellites.items[i].name,
                                     data.satellites.items[i].data))]))

\* The elements of a sequence.
Elements(seq) == {seq[i] : i \in 1..Len(seq)}

\* Some accepted source carries a number under a field it is not read for.
CarriesForeignField ==
    \E i \in AcceptedPositions(InputItems) :
        /\ InputItems[i].name \notin Eligible("ndvi")
        /\ InputItems[i].data.indices.t = "dict"
        /\ InputItems[i].data.indices.ndvi.t = "num"

(***************************************************************************)
(* C27: the sources listed for a metric are sources of data_sources that   *)
(* are eligible for it -- sentinel2, landsat8, irs for ndvi and evi;       *)
(* landsat8, modis, irs for temperature; sentinel1, risat for              *)
(* soil_moisture -- and the call ends exactly as it does on the input from *)
(* which every field of a source not eligible for it has been removed.     *)
(***************************************************************************)
C27_OnlyEligibleSources ==
    (Called /\ HasMapping) =>
        /\ \/ WithoutForeignFields(satellite_data) = satellite_data
           \/ result = fuse_satellite_data(WithoutForeignFields(satellite_data), CallTime,
                                           satellite_weights).outcome
        /\ Succeeded =>
              \A metric \in DOMAIN result.report.cross_validation :
                  Contributors(result.report, metric)
                      \subseteq Eligible(metric) \cap Elements(result.report.data_sources)

\* modis and cartosat are valid and carry an ndvi; the fused ndvi is that
\* of sentinel2 alone.
C27_Witness ==
    /\ Succeeded
    /\ CarriesForeignField
    /\ {"modis", "cartosat"} \subseteq Elements(result.report.data_sources)
    /\ EntryOf("modis").indices.t = "dict"
    /\ EntryOf("modis").indices.ndvi = Num(10)
    /\ Contributors(result.report, "ndvi") = {"sentinel2"}
    /\ result.report.fused_metrics["ndvi"] = Rat(65, 100)

\* The highest confidence a metric can have: 0.6 * (3 / 4) + 0.4 with its
\* three eligible sources, 0.6 * (2 / 4) + 0.4 with the two of soil_moisture.
Ceiling(metric) ==
    IF metric = "soil_moisture" THEN Rat(70, 100) ELSE Rat(85, 100)

(***************************************************************************)
(* C28: the confidence of ndvi, evi and temperature never exceeds 0.85 and *)
(* that of soil_moisture never exceeds 0.70; overall_confidence never      *)
(* exceeds 0.85; and no metric has four contributors, so the source term   *)
(* min(n / 4, 1) is always below 1.                                        *)
(***************************************************************************)
C28_ConfidenceCeiling ==
    Succeeded =>
        /\ \A metric \in DOMAIN result.report.confidence_scores :
              /\ RatLE(result.report.confidence_scores[metric], Ceiling(metric))
              /\ result.report.cross_validation[metric].num_sources
                    <= Cardinality(Eligible(metric))
              /\ result.report.cross_validation[metric].num_sources < 4
        /\ RatLE(result.report.overall_confidence, Rat(85, 100))

\* Both radar sources agree and a third valid source carries the same
\* estimate: soil_moisture sits on its ceiling of 0.70.
C28_Witness ==
    /\ Succeeded
    /\ Len(result.report.data_sources) = 3
    /\ Contributors(result.report, "soil_moisture") = {"sentinel1", "risat"}
    /\ result.report.cross_validation["soil_moisture"].variance = Zero
    /\ result.report.confidence_scores["soil_moisture"] = Ceiling("soil_moisture")

\* Both calls are over: the one on the input and the one on its copy.
BothCalled == Called /\ twin.k = "called"

(***************************************************************************)
(* C29: replacing the status of a valid source by another of the accepted  *)
(* tags success, fallback and simulated changes nothing in the outcome of  *)
(* the call but the timestamp: data_sources, fused_metrics,                *)
(* confidence_scores, cross_validation, overall_confidence,                *)
(* consensus_level and overall_quality are the same.                       *)
(***************************************************************************)
C29_StatusTagInsensitive ==
    BothCalled => WithoutTimestamp(twin.outcome) = WithoutTimestamp(result)

\* A reading tagged success, retagged as fallback or simulated in the copy,
\* contributes to a metric fused from two sources or more.
C29_Witness ==
    /\ BothCalled
    /\ Succeeded
    /\ twin.tag \in {"fallback", "simulated"}
    /\ InputItems[twin.position].data.status = Success
    /\ \E metric \in DOMAIN result.report.cross_validation :
          /\ result.report.cross_validation[metric].num_sources >= 2
          /\ InputItems[twin.position].name \in Contributors(result.report, metric)

\* A routine's extraction loop ended without an exception and with a
\* contributor: the routine goes on to the weighted mean.
ComputesMean(c) == c.exc = "" /\ c.sources # <<>>

\* The division of the weighted mean is defined: each contributor carries
\* the weight the table holds for it and the weights sum to more than zero.
DivisionSound(c) ==
    /\ \A i \in 1..Len(c.sources) :
          /\ c.sources[i].name \in DOMAIN satellite_weights
          /\ c.sources[i].weight = satellite_weights[c.sources[i].name]
          /\ c.sources[i].weight > 0
    /\ SumWeights(c.sources) > 0

\* What the routine of a metric collected in the last call.
Collected(metric) == Collect(metric, passed, satellite_weights)

\* The routine divides exactly when it has a contributor, and then soundly.
RoutineSound(metric, c) ==
    /\ ComputesMean(c) => DivisionSound(c)
    /\ (FuseSources(metric, c).k = "ok") = ComputesMean(c)

(***************************************************************************)
(* C30: whenever a routine computes sum(value * weight) / sum(weight) it   *)
(* has at least one contributor, every contributor's weight is its entry   *)
(* of the weight table, never the 0.5 default, and the sum of the weights  *)
(* is positive; a routine without contributors returns before the          *)
(* division.                                                               *)
(***************************************************************************)
C30_NoDivisionByZero ==
    \A k \in 1..Len(executed) : RoutineSound(executed[k], Collected(executed[k]))

\* One routine divided by the weights of two sources or more, another
\* found no contributor and returned before dividing.
C30_Witness ==
    /\ Called
    /\ \E k \in 1..Len(executed) :
          /\ ComputesMean(Collected(executed[k]))
          /\ Len(Collected(executed[k]).sources) >= 2
          /\ SumWeights(Collected(executed[k]).sources) < 100 * Len(Collected(executed[k]).sources)
    /\ \E k \in 1..Len(executed) :
          /\ Collected(executed[k]).exc = ""
          /\ Collected(executed[k]).sources = <<>>

====
